---- MODULE Spec2Model ----
(***************************************************************************)
(* Model of the CertificateRegistry smart contract                        *)
(* (smart_contracts/certificate_registry/contract.py).                     *)
(*                                                                         *)
(* The contract keeps one BoxMap(Bytes, Bytes) from certificate hash to    *)
(* owner bytes.  Every ABI call is one application-call transaction: the   *)
(* ledger runs it to completion, and a failed `assert` rejects the whole   *)
(* transaction, leaving box storage as it was.                             *)
(***************************************************************************)
EXTENDS Integers, Sequences, FiniteSets, TLC

\* ---------------------------------------------------------------- bounds
NumAccounts == 2          \* transaction-submitting principals in the model
NumHashes == 2            \* certificate hashes in the model
MaxRegisterCount == 2     \* the history counter saturates here
AddrLen == 2              \* bytes in an address (32 on the ledger)
HashLen == 3              \* bytes in a certificate hash (32 for SHA-256)

\* ------------------------------------------------------------ byte values

\* Bytes(b"")
EmptyBytes == <<>>

\* the i-th account's address bytes / the i-th certificate hash
Addr(i) == [j \in 1..AddrLen |-> i]
Hash(i) == [j \in 1..HashLen |-> i]

Accounts == {Addr(i) : i \in 1..NumAccounts}
Hashes == {Hash(i) : i \in 1..NumHashes}

\* an address with its last byte lost: bytes that are no principal's identity
Truncate(a) == SubSeq(a, 1, Len(a) - 1)
MalformedAddress == Truncate(Addr(1))

\* values a caller may pass as new_owner: transfer_certificate takes any Bytes
NewOwnerInputs == {EmptyBytes, MalformedAddress} \cup Accounts

\* ------------------------------------------------------------------ state
VARIABLES
    certificates,     \* self.certificates: the boxes that exist, key |-> value
    register_count,   \* history: successful register_certificate calls per hash
    lastCall,         \* the transaction executed last, with its outcome
    handover,         \* history: the last change of hands of TrackedHash
    pool,             \* submitted register transactions and their outcomes
    request,          \* off-chain scripts: the call being served
    response,         \* off-chain scripts: what the call gave its caller
    mint,             \* minting scripts: the running call and its locals
    ledger,           \* the host ledger as the minting scripts meet it
    poap              \* the POAP application: its state and the call run last

\* the contract's storage and the observed call
regVars == <<certificates, register_count, lastCall>>
\* history kept only by the scenario specifications
scenarioVars == <<handover, pool>>

\* state of the off-chain verification scripts
verifyVars == <<request, response>>
\* state of the minting scripts and of the ledger they submit to
mintVars == <<mint, ledger>>
\* state of all off-chain scripts
offchainVars == <<request, response, mint, ledger>>

\* state of the POAP application
poapVars == <<poap>>

vars ==
    <<certificates, register_count, lastCall, handover, pool,
      request, response, mint, ledger, poap>>

\* no owner-to-owner transfer is on record
NoHandover == [from |-> EmptyBytes, to |-> EmptyBytes]
\* nothing has been submitted to the transaction pool
EmptyPool == [t \in {} |-> "pending"]
\* no off-chain call is being served / has returned
NoRequest == [kind |-> "none"]
NoResponse == [entry |-> "none"]
\* no minting call is running
NoMint == [path |-> "none"]
\* a ledger with no asset of the deployer's
EmptyLedger == [acfg |-> <<>>, optin |-> {}, axfer |-> <<>>]
\* the POAP application has not been created
NoTxn ==
    [sender |-> EmptyBytes, application_id |-> 0, on_completion |-> "NoOp",
     selected |-> "none", application_args |-> <<>>, inner |-> "ok",
     approved |-> FALSE]
NoPoap ==
    [created |-> FALSE, global |-> [k \in {} |-> 0],
     local |-> [a \in {} |-> 0], last |-> NoTxn]
MintIdle ==
    /\ mint = NoMint
    /\ ledger = EmptyLedger
\* the off-chain scripts are not running
OffchainIdle ==
    /\ request = NoRequest
    /\ response = NoResponse
    /\ MintIdle

NoCall ==
    [op |-> "none", sender |-> EmptyBytes, cert_hash |-> EmptyBytes,
     new_owner |-> EmptyBytes, ok |-> FALSE, ret |-> EmptyBytes]

Call(op, sender, cert_hash, new_owner, ok, ret) ==
    [op |-> op, sender |-> sender, cert_hash |-> cert_hash,
     new_owner |-> new_owner, ok |-> ok, ret |-> ret]

\* BoxMap.get(key, default=...): the box's value when the box exists
BoxGet(boxes, key, default) ==
    IF key \in DOMAIN boxes THEN boxes[key] ELSE default

\* BoxMap.__setitem__: creates the box or replaces its value
BoxPut(boxes, key, value) ==
    [k \in DOMAIN boxes \cup {key} |-> IF k = key THEN value ELSE boxes[k]]

Bump(n) == IF n < MaxRegisterCount THEN n + 1 ELSE n

\* the application right after creation: no boxes, nothing called yet
RegistryInit ==
    /\ certificates = [k \in {} |-> EmptyBytes]
    /\ register_count = [h \in Hashes |-> 0]
    /\ lastCall = NoCall

Init ==
    /\ RegistryInit
    /\ handover = NoHandover
    /\ pool = EmptyPool
    /\ OffchainIdle
    /\ poap = NoPoap

\* ------------------------------------------------------------- operations
\* the deployer of the application (Global.creator_address)
Creator == Addr(1)

\* variant of register_certificate: the "already registered" assert is
\* missing, so the entry is overwritten
register_certificate_no_duplicate_check(sender, cert_hash) ==
    /\ certificates' = BoxPut(certificates, cert_hash, sender)
    /\ register_count' = [register_count EXCEPT ![cert_hash] = Bump(@)]
    /\ lastCall' = Call("register_certificate", sender, cert_hash,
                        EmptyBytes, TRUE, EmptyBytes)

\* variant of register_certificate: records Global.creator_address.bytes
\* as the owner in place of Txn.sender.bytes
register_certificate_stores_creator(sender, cert_hash) ==
    LET existing_owner == BoxGet(certificates, cert_hash, EmptyBytes)
    IN  IF existing_owner = EmptyBytes
        THEN /\ certificates' = BoxPut(certificates, cert_hash, Creator)
             /\ register_count' =
                    [register_count EXCEPT ![cert_hash] = Bump(@)]
             /\ lastCall' = Call("register_certificate", sender, cert_hash,
                                 EmptyBytes, TRUE, EmptyBytes)
        ELSE /\ lastCall' = Call("register_certificate", sender, cert_hash,
                                 EmptyBytes, FALSE, EmptyBytes)
             /\ UNCHANGED <<certificates, register_count>>

register_certificate(sender, cert_hash) ==
    LET existing_owner == BoxGet(certificates, cert_hash, EmptyBytes)
    IN  IF existing_owner = EmptyBytes
        THEN /\ certificates' = BoxPut(certificates, cert_hash, sender)
             /\ register_count' =
                    [register_count EXCEPT ![cert_hash] = Bump(@)]
             /\ lastCall' = Call("register_certificate", sender, cert_hash,
                                 EmptyBytes, TRUE, EmptyBytes)
        ELSE /\ lastCall' = Call("register_certificate", sender, cert_hash,
                                 EmptyBytes, FALSE, EmptyBytes)
             /\ UNCHANGED <<certificates, register_count>>

\* variant of verify_certificate: reads self.certificates[cert_hash]
\* directly, which fails when the box does not exist
verify_certificate_direct_read(sender, cert_hash) ==
    /\ lastCall' =
          IF cert_hash \in DOMAIN certificates
          THEN Call("verify_certificate", sender, cert_hash, EmptyBytes,
                    TRUE, certificates[cert_hash])
          ELSE Call("verify_certificate", sender, cert_hash, EmptyBytes,
                    FALSE, EmptyBytes)
    /\ UNCHANGED <<certificates, register_count>>

\* variant of verify_certificate: writes the looked-up value back
\* (a setdefault-style read that creates the box)
verify_certificate_creates_entry(sender, cert_hash) ==
    LET owner == BoxGet(certificates, cert_hash, EmptyBytes)
    IN  /\ certificates' = BoxPut(certificates, cert_hash, owner)
        /\ lastCall' = Call("verify_certificate", sender, cert_hash,
                            EmptyBytes, TRUE, owner)
        /\ UNCHANGED register_count

verify_certificate(sender, cert_hash) ==
    LET owner == BoxGet(certificates, cert_hash, EmptyBytes)
    IN  /\ lastCall' = Call("verify_certificate", sender, cert_hash,
                            EmptyBytes, TRUE, owner)
        /\ UNCHANGED <<certificates, register_count>>

\* variant of transfer_certificate: the "Permission denied" assert is missing
transfer_certificate_no_owner_check(sender, cert_hash, new_owner) ==
    LET current_owner == BoxGet(certificates, cert_hash, EmptyBytes)
    IN  IF current_owner # EmptyBytes
        THEN /\ certificates' = BoxPut(certificates, cert_hash, new_owner)
             /\ lastCall' = Call("transfer_certificate", sender, cert_hash,
                                 new_owner, TRUE, EmptyBytes)
             /\ UNCHANGED register_count
        ELSE /\ lastCall' = Call("transfer_certificate", sender, cert_hash,
                                 new_owner, FALSE, EmptyBytes)
             /\ UNCHANGED <<certificates, register_count>>

\* variant of transfer_certificate: stores current_owner, not new_owner
transfer_certificate_keeps_owner(sender, cert_hash, new_owner) ==
    LET current_owner == BoxGet(certificates, cert_hash, EmptyBytes)
    IN  IF current_owner # EmptyBytes /\ current_owner = sender
        THEN /\ certificates' = BoxPut(certificates, cert_hash, current_owner)
             /\ lastCall' = Call("transfer_certificate", sender, cert_hash,
                                 new_owner, TRUE, EmptyBytes)
             /\ UNCHANGED register_count
        ELSE /\ lastCall' = Call("transfer_certificate", sender, cert_hash,
                                 new_owner, FALSE, EmptyBytes)
             /\ UNCHANGED <<certificates, register_count>>

\* variant of transfer_certificate: the two asserts are merged into
\* "current_owner == b'' or current_owner == Txn.sender.bytes"
\* (the existence test copied from register_certificate)
transfer_certificate_inverted_found_check(sender, cert_hash, new_owner) ==
    LET current_owner == BoxGet(certificates, cert_hash, EmptyBytes)
    IN  IF current_owner = EmptyBytes \/ current_owner = sender
        THEN /\ certificates' = BoxPut(certificates, cert_hash, new_owner)
             /\ lastCall' = Call("transfer_certificate", sender, cert_hash,
                                 new_owner, TRUE, EmptyBytes)
             /\ UNCHANGED register_count
        ELSE /\ lastCall' = Call("transfer_certificate", sender, cert_hash,
                                 new_owner, FALSE, EmptyBytes)
             /\ UNCHANGED <<certificates, register_count>>

\* variant of transfer_certificate: the box key ignores cert_hash, so the
\* write lands on every existing entry
transfer_certificate_shared_key(sender, cert_hash, new_owner) ==
    LET current_owner == BoxGet(certificates, cert_hash, EmptyBytes)
    IN  IF current_owner # EmptyBytes /\ current_owner = sender
        THEN /\ certificates' = [k \in DOMAIN certificates |-> new_owner]
             /\ lastCall' = Call("transfer_certificate", sender, cert_hash,
                                 new_owner, TRUE, EmptyBytes)
             /\ UNCHANGED register_count
        ELSE /\ lastCall' = Call("transfer_certificate", sender, cert_hash,
                                 new_owner, FALSE, EmptyBytes)
             /\ UNCHANGED <<certificates, register_count>>

transfer_certificate(sender, cert_hash, new_owner) ==
    LET current_owner == BoxGet(certificates, cert_hash, EmptyBytes)
    IN  IF current_owner # EmptyBytes /\ current_owner = sender
        THEN /\ certificates' = BoxPut(certificates, cert_hash, new_owner)
             /\ lastCall' = Call("transfer_certificate", sender, cert_hash,
                                 new_owner, TRUE, EmptyBytes)
             /\ UNCHANGED register_count
        ELSE /\ lastCall' = Call("transfer_certificate", sender, cert_hash,
                                 new_owner, FALSE, EmptyBytes)
             /\ UNCHANGED <<certificates, register_count>>

Register ==
    /\ \E s \in Accounts, h \in Hashes : register_certificate(s, h)
    /\ UNCHANGED <<scenarioVars, offchainVars, poapVars>>

Verify ==
    /\ \E s \in Accounts, h \in Hashes : verify_certificate(s, h)
    /\ UNCHANGED <<scenarioVars, offchainVars, poapVars>>

Transfer ==
    /\ \E s \in Accounts, h \in Hashes, n \in NewOwnerInputs :
           transfer_certificate(s, h, n)
    /\ UNCHANGED <<scenarioVars, offchainVars, poapVars>>

Next == Register \/ Verify \/ Transfer

Spec == Init /\ [][Next]_vars

TypeOK ==
    /\ DOMAIN certificates \subseteq Hashes
    /\ \A h \in DOMAIN certificates : certificates[h] \in NewOwnerInputs
    /\ register_count \in [Hashes -> 0..MaxRegisterCount]

\* ------------------------------------------- scenario: a change of hands
\* the hash whose ownership history is followed
TrackedHash == Hash(1)

\* a successful transfer_certificate(TrackedHash, n) by s: when n is another
\* principal the hand-over s -> n is recorded; when the recorded recipient
\* itself transfers, the record is closed
RecordHandover(s, n, ok) ==
    IF ~ok THEN handover
    ELSE IF n \in Accounts \ {s} THEN [from |-> s, to |-> n]
    ELSE IF handover # NoHandover /\ s = handover.to THEN NoHandover
    ELSE handover

HandoverRegister ==
    /\ \E s \in Accounts : register_certificate(s, TrackedHash)
    /\ UNCHANGED <<scenarioVars, offchainVars, poapVars>>

HandoverVerify ==
    /\ \E s \in Accounts : verify_certificate(s, TrackedHash)
    /\ UNCHANGED <<scenarioVars, offchainVars, poapVars>>

HandoverTransfer ==
    \E s \in Accounts, n \in NewOwnerInputs :
        /\ transfer_certificate(s, TrackedHash, n)
        /\ handover' = RecordHandover(s, n, lastCall'.ok)
        /\ UNCHANGED <<pool, offchainVars, poapVars>>

HandoverNext == HandoverRegister \/ HandoverVerify \/ HandoverTransfer

SpecHandover == Init /\ [][HandoverNext]_vars

\* ------------------------------- scenario: competing register transactions
\* a register_certificate(cert_hash) transaction signed by sender
RegisterTxs == [sender : Accounts, cert_hash : Hashes]

\* any set of register transactions is submitted before any of them runs
RaceInit ==
    /\ RegistryInit
    /\ handover = NoHandover
    /\ \E submitted \in SUBSET RegisterTxs :
           pool = [t \in submitted |-> "pending"]
    /\ OffchainIdle
    /\ poap = NoPoap

\* the ledger picks one pending transaction and runs it to completion
Execute ==
    \E t \in DOMAIN pool :
        /\ pool[t] = "pending"
        /\ register_certificate(t.sender, t.cert_hash)
        /\ pool' = [pool EXCEPT ![t] =
                        IF lastCall'.ok THEN "ok" ELSE "rejected"]
        /\ UNCHANGED <<handover, offchainVars, poapVars>>

RaceNext == Execute

SpecRace == RaceInit /\ [][RaceNext]_vars

\* =================================================== off-chain verification
\* Python's None / a present value
None == <<>>
Some(v) == <<v>>

\* text is a sequence of characters
POAP == <<"P", "O", "A", "P">>

\* Python's `sub in text` for strings
Contains(sub, text) ==
    \E i \in 1..(Len(text) - Len(sub) + 1) :
        SubSeq(text, i, i + Len(sub) - 1) = sub

\* ------------------------------------------------------- hex and base64
HexDigits ==
    <<"0", "1", "2", "3", "4", "5", "6", "7",
      "8", "9", "a", "b", "c", "d", "e", "f">>

\* the value of a hexadecimal digit, 16 for any other character
HexVal(c) ==
    IF \E v \in 1..16 : HexDigits[v] = c
    THEN (CHOOSE v \in 1..16 : HexDigits[v] = c) - 1
    ELSE 16

\* binascii.hexlify(data).decode()
Hexlify(data) ==
    [i \in 1..(2 * Len(data)) |->
        IF i % 2 = 1 THEN HexDigits[(data[(i + 1) \div 2] \div 16) + 1]
        ELSE HexDigits[(data[i \div 2] % 16) + 1]]

\* binascii.unhexlify(text): raises on odd length or a non-hex character
Unhexlify(text) ==
    IF Len(text) % 2 = 1 \/ \E i \in 1..Len(text) : HexVal(text[i]) = 16
    THEN [ok |-> FALSE, val |-> EmptyBytes]
    ELSE [ok |-> TRUE,
          val |-> [i \in 1..(Len(text) \div 2) |->
                      16 * HexVal(text[2 * i - 1]) + HexVal(text[2 * i])]]

\* base64 text is a sequence of alphabet indices 0..63, with Pad for "="
Pad == 64

\* base64.b64encode(data): how the ledger API renders a byte field
Base64Encode(data) ==
    LET n == Len(data)
        groups == (n + 2) \div 3
        byte(i) == IF i <= n THEN data[i] ELSE 0
        word(g) == 65536 * byte(3 * g - 2) + 256 * byte(3 * g - 1) + byte(3 * g)
        sextet(g, k) ==
            CASE k = 1 -> word(g) \div 262144
              [] k = 2 -> (word(g) \div 4096) % 64
              [] k = 3 -> (word(g) \div 64) % 64
              [] OTHER -> word(g) % 64
        pads == (3 * groups) - n
    IN  [i \in 1..(4 * groups) |->
            IF i > 4 * groups - pads THEN Pad
            ELSE sextet((i + 3) \div 4, ((i - 1) % 4) + 1)]

\* base64.b64decode(text): raises binascii.Error on incorrect padding
Base64Decode(text) ==
    LET n == Len(text)
        pads == Cardinality({i \in 1..n : text[i] = Pad})
        groups == n \div 4
        six(i) == IF text[i] = Pad THEN 0 ELSE text[i]
        word(g) == 262144 * six(4 * g - 3) + 4096 * six(4 * g - 2)
                   + 64 * six(4 * g - 1) + six(4 * g)
        byte(g, k) ==
            CASE k = 1 -> word(g) \div 65536
              [] k = 2 -> (word(g) \div 256) % 256
              [] OTHER -> word(g) % 256
        wellFormed ==
            /\ n % 4 = 0
            /\ pads <= 2
            /\ \A i \in 1..n : text[i] = Pad => i > n - pads
    IN  IF ~wellFormed THEN [ok |-> FALSE, val |-> EmptyBytes]
        ELSE [ok |-> TRUE,
              val |-> [i \in 1..(3 * groups - pads) |->
                          byte((i + 2) \div 3, ((i - 1) % 3) + 1)]]

\* ------------------------------------------------------ ledger responses
\* deployer_address, derived from the DEPLOYER mnemonic
deployer_address == "DEPLOYER"
\* some other account's address
OtherAddress == "OTHER"

\* asset parameters with none of the keys present
EmptyParams ==
    [total |-> None, decimals |-> None, unit_name |-> None, name |-> None,
     creator |-> None, metadata_hash |-> None]

\* asset names on the ledger ("name" is absent when the asset has none)
NameInputs ==
    {None, Some(POAP), Some(POAP \o <<"-", "R">>), Some(<<"x">> \o POAP),
     Some(<<"P", "O", "A">>), Some(<<"P", "O", "x", "A", "P">>),
     Some(<<"p", "o", "a", "p">>)}

UnitNameInputs == {None, Some(POAP), Some(<<"p", "o", "a", "p">>)}

\* the "params" objects algod can return for an existing asset
ParamsInputs ==
    [total : {None, Some(1), Some(2)},
     decimals : {None, Some(0), Some(1)},
     unit_name : UnitNameInputs,
     name : NameInputs,
     creator : {None, Some(deployer_address), Some(OtherAddress)},
     metadata_hash : {None, Some(Base64Encode(Hash(1)))}]

\* the expected_metadata arguments a caller of verify_nft.py may pass
ExpectedMetadataInputs ==
    {None,
     Some([certificate_hash |-> None, event |-> None]),
     Some([certificate_hash |-> None, event |-> Some("Rise")]),
     Some([certificate_hash |-> Some(Hexlify(Hash(1))), event |-> None]),
     Some([certificate_hash |-> Some(Hexlify(Hash(2))), event |-> None]),
     Some([certificate_hash |-> Some(<<"a", "b", "c">>), event |-> None])}

\* a dict is falsy exactly when it has no keys
Truthy(expected_metadata) ==
    /\ expected_metadata # None
    /\ \/ expected_metadata[1].certificate_hash # None
       \/ expected_metadata[1].event # None

\* the asset identifier of a single verification request
AssetId == 1

\* one verification request and the ledger it meets: `asset` is None when
\* the asset does not exist
VerifyRequests ==
    [kind : {"verify"},
     asset_id : {AssetId},
     asset : {None} \cup {Some(p) : p \in ParamsInputs},
     algod_up : BOOLEAN,
     indexer_up : BOOLEAN,
     expected_metadata : ExpectedMetadataInputs]

\* algod_client.asset_info(asset_id): the asset object, or an HTTP error
AlgodAssetInfo(req) ==
    IF req.algod_up /\ req.asset # None
    THEN [ok |-> TRUE, val |-> [params |-> req.asset]]
    ELSE [ok |-> FALSE, val |-> [params |-> None]]

\* indexer_client.asset_info(asset_id): the asset wrapped in an envelope
\* ({"asset": ..., "current-round": ...}), which has no "params" key
IndexerAssetInfo(req) ==
    IF req.indexer_up /\ req.asset # None
    THEN [ok |-> TRUE, val |-> [params |-> None]]
    ELSE [ok |-> FALSE, val |-> [params |-> None]]

\* asset_info.get("params", {})
ParamsOf(asset_info) ==
    IF asset_info.params = None THEN EmptyParams ELSE asset_info.params[1]

\* params.get("name", "")
NameOf(params) == IF params.name = None THEN <<>> ELSE params.name[1]

\* sum(verification_results.values()) and len(verification_results)
PassedChecks(results) == Cardinality({k \in DOMAIN results : results[k]})
TotalChecks(results) == Cardinality(DOMAIN results)

\* ------------------------------------------------------------- verify.py
\* variant of verify_poap_structure: is_nft tests only the total supply
verify_poap_structure_ignores_decimals(asset_info) ==
    LET params == ParamsOf(asset_info)
    IN  [is_nft |-> params.total = Some(1),
         correct_unit_name |-> params.unit_name = Some(POAP),
         correct_name_format |-> Contains(POAP, NameOf(params)),
         correct_creator |-> params.creator = Some(deployer_address)]

\* POAPVerifier.verify_poap_structure (verify.py): the four checks
verify_poap_structure(asset_info) ==
    LET params == ParamsOf(asset_info)
    IN  [is_nft |-> params.total = Some(1) /\ params.decimals = Some(0),
         correct_unit_name |-> params.unit_name = Some(POAP),
         correct_name_format |-> Contains(POAP, NameOf(params)),
         correct_creator |-> params.creator = Some(deployer_address)]

\* a call that returned `body` / a call that let an exception escape
Returned(entry, body) == [entry |-> entry, raised |-> FALSE, body |-> body]
Raised(entry) ==
    [entry |-> entry, raised |-> TRUE, body |-> [exception |-> TRUE]]

\* the report both verify.py flows build from an asset_info
StructureReport(asset_id, asset_info) ==
    LET verification_results == verify_poap_structure(asset_info)
    IN  [asset_id |-> asset_id,
         found |-> TRUE,
         verification_results |-> verification_results,
         overall_valid |->
             PassedChecks(verification_results)
                 = TotalChecks(verification_results)]

\* the structured answer for an asset that cannot be read
NotFoundReport(asset_id) ==
    [asset_id |-> asset_id, found |-> FALSE, error |-> TRUE]

\* POST /verify (verify.py verify_poap): algod first, then the indexer
verify_poap(req) ==
    LET algod == AlgodAssetInfo(req)
        indexer == IndexerAssetInfo(req)
    IN  IF algod.ok
        THEN Returned("verify.verify_poap",
                      StructureReport(req.asset_id, algod.val))
        ELSE IF indexer.ok
        THEN Returned("verify.verify_poap",
                      StructureReport(req.asset_id, indexer.val))
        ELSE Returned("verify.verify_poap", NotFoundReport(req.asset_id))

\* POAPVerifier.comprehensive_verification (verify.py): get_asset_info has
\* no exception handler, so an algod error escapes
verify_comprehensive_verification(req) ==
    LET algod == AlgodAssetInfo(req)
    IN  IF algod.ok
        THEN Returned("verify.comprehensive_verification",
                      StructureReport(req.asset_id, algod.val))
        ELSE Raised("verify.comprehensive_verification")

\* --------------------------------------------------------- verify_nft.py
\* POAPVerifier.verify_metadata_hash: any exception gives False
verify_metadata_hash(expected_metadata, actual_metadata_hash_b64) ==
    IF expected_metadata.certificate_hash = None THEN FALSE
    ELSE LET expected_hash_bytes ==
                 Unhexlify(expected_metadata.certificate_hash[1])
             actual_hash_bytes == Base64Decode(actual_metadata_hash_b64)
         IN  /\ expected_hash_bytes.ok
             /\ actual_hash_bytes.ok
             /\ expected_hash_bytes.val = actual_hash_bytes.val

\* POAPVerifier.verify_poap_structure (verify_nft.py): seven entries, of
\* which has_note and note_content_valid keep their initial False
nft_verify_poap_structure(asset_info, expected_metadata) ==
    LET params == ParamsOf(asset_info)
    IN  [is_nft |-> params.total = Some(1) /\ params.decimals = Some(0),
         correct_unit_name |-> params.unit_name = Some(POAP),
         correct_name_format |-> Contains(POAP, NameOf(params)),
         correct_creator |-> params.creator = Some(deployer_address),
         metadata_hash_valid |->
             IF params.metadata_hash # None /\ Truthy(expected_metadata)
             THEN verify_metadata_hash(expected_metadata[1],
                                       params.metadata_hash[1])
             ELSE FALSE,
         has_note |-> FALSE,
         note_content_valid |-> FALSE]

\* POAPVerifier.comprehensive_verification (verify_nft.py), called without
\* a holder address; get_asset_info turns an algod error into None
nft_comprehensive_verification(req) ==
    LET algod == AlgodAssetInfo(req)
    IN  IF ~algod.ok
        THEN Returned("verify_nft.comprehensive_verification",
                      [found |-> FALSE, error |-> TRUE])
        ELSE LET verification_results ==
                     nft_verify_poap_structure(algod.val,
                                               req.expected_metadata)
             IN  Returned("verify_nft.comprehensive_verification",
                     [asset_id |-> req.asset_id,
                      found |-> TRUE,
                      verification_results |-> verification_results,
                      overall_valid |->
                          PassedChecks(verification_results)
                              = TotalChecks(verification_results)])

\* ------------------------------------------------ gen.py and gen_cert.py
\* the certificate hash both extractors read back from "metadata-hash"
ExtractedCertificateHash(params) ==
    IF params.metadata_hash = None THEN None
    ELSE LET decoded == Base64Decode(params.metadata_hash[1])
         IN  IF decoded.ok THEN Some(Hexlify(decoded.val)) ELSE None

\* get_certificate_details_from_asset_id (gen.py, gen_cert.py): the outer
\* handler turns an algod error into a success = False result
get_certificate_details_from_asset_id(entry, req) ==
    LET algod == AlgodAssetInfo(req)
    IN  IF ~algod.ok
        THEN Returned(entry, [success |-> FALSE, asset_id |-> req.asset_id,
                              found |-> FALSE, error |-> TRUE])
        ELSE Returned(entry,
                 [success |-> TRUE, asset_id |-> req.asset_id,
                  found |-> TRUE,
                  certificate_hash |->
                      ExtractedCertificateHash(ParamsOf(algod.val))])

\* ----------------------------------------------- multi-asset verification
\* POST /verify-multiple (verify.py verify_multiple_poaps): the loop has no
\* exception handler, so the first failing asset ends the whole call
verify_multiple_poaps(reqs) ==
    LET one(i) == verify_comprehensive_verification(reqs[i])
    IN  IF \E i \in 1..Len(reqs) : one(i).raised
        THEN Raised("verify.verify_multiple_poaps")
        ELSE Returned("verify.verify_multiple_poaps",
                      [results |-> [i \in 1..Len(reqs) |-> one(i).body]])

\* verify_multiple_poaps (verify_nft.py) without expected_metadata_list
nft_verify_multiple_poaps(reqs) ==
    LET one(i) ==
            nft_comprehensive_verification(
                [reqs[i] EXCEPT !.expected_metadata = None])
    IN  Returned("verify_nft.verify_multiple_poaps",
                 [results |-> [i \in 1..Len(reqs) |-> one(i).body]])

\* ---------------------------------------- specification: one verification
VerifyInit ==
    /\ RegistryInit
    /\ handover = NoHandover
    /\ pool = EmptyPool
    /\ request \in VerifyRequests
    /\ response = NoResponse
    /\ MintIdle
    /\ poap = NoPoap

\* a verification request is waiting to be served
VerifyReady == request.kind = "verify" /\ response = NoResponse

VerifyEndpoint ==
    /\ VerifyReady
    /\ response' = verify_poap(request)
    /\ UNCHANGED <<regVars, poapVars, scenarioVars, mintVars, request>>

VerifyComprehensive ==
    /\ VerifyReady
    /\ response' = verify_comprehensive_verification(request)
    /\ UNCHANGED <<regVars, poapVars, scenarioVars, mintVars, request>>

VerifyMultipleOfOne ==
    /\ VerifyReady
    /\ response' = verify_multiple_poaps(<<request>>)
    /\ UNCHANGED <<regVars, poapVars, scenarioVars, mintVars, request>>

NftComprehensive ==
    /\ VerifyReady
    /\ response' = nft_comprehensive_verification(request)
    /\ UNCHANGED <<regVars, poapVars, scenarioVars, mintVars, request>>

GenCertificate ==
    /\ VerifyReady
    /\ response' = get_certificate_details_from_asset_id(
                       "gen.get_certificate_details_from_asset_id", request)
    /\ UNCHANGED <<regVars, poapVars, scenarioVars, mintVars, request>>

GenCertCertificate ==
    /\ VerifyReady
    /\ response' = get_certificate_details_from_asset_id(
                       "gen_cert.get_certificate_details_from_asset_id",
                       request)
    /\ UNCHANGED <<regVars, poapVars, scenarioVars, mintVars, request>>

VerifyNext ==
    \/ VerifyEndpoint
    \/ VerifyComprehensive
    \/ VerifyMultipleOfOne
    \/ NftComprehensive
    \/ GenCertificate
    \/ GenCertCertificate

SpecVerify == VerifyInit /\ [][VerifyNext]_vars

\* ------------------------------------ specification: a list of asset ids
MaxAssetIds == 3          \* longest asset id list submitted

\* a conforming POAP and a fungible token
ConformingParams ==
    [total |-> Some(1), decimals |-> Some(0), unit_name |-> Some(POAP),
     name |-> Some(POAP \o <<"-", "R">>),
     creator |-> Some(deployer_address),
     metadata_hash |-> Some(Base64Encode(Hash(1)))]
TokenParams ==
    [total |-> Some(2), decimals |-> Some(1),
     unit_name |-> Some(<<"p", "o", "a", "p">>), name |-> None,
     creator |-> Some(OtherAddress), metadata_hash |-> None]

\* the ledger the list is checked against: assets 1 and 2 exist, 3 does not
LedgerAssetIds == {1, 2, 3}
LedgerAsset(asset_id) ==
    CASE asset_id = 1 -> Some(ConformingParams)
      [] asset_id = 2 -> Some(TokenParams)
      [] OTHER -> None

\* the request comprehensive_verification sees for one listed id
ItemRequest(asset_id) ==
    [kind |-> "verify", asset_id |-> asset_id,
     asset |-> LedgerAsset(asset_id), algod_up |-> TRUE,
     indexer_up |-> TRUE, expected_metadata |-> None]

ItemRequests(asset_ids) ==
    [i \in 1..Len(asset_ids) |-> ItemRequest(asset_ids[i])]

AssetIdLists ==
    UNION {[1..n -> LedgerAssetIds] : n \in 0..MaxAssetIds}

MultiInit ==
    /\ RegistryInit
    /\ handover = NoHandover
    /\ pool = EmptyPool
    /\ \E asset_ids \in AssetIdLists :
           request = [kind |-> "verify_multiple", asset_ids |-> asset_ids]
    /\ response = NoResponse
    /\ MintIdle
    /\ poap = NoPoap

MultiReady == request.kind = "verify_multiple" /\ response = NoResponse

VerifyMultiple ==
    /\ MultiReady
    /\ response' = verify_multiple_poaps(ItemRequests(request.asset_ids))
    /\ UNCHANGED <<regVars, poapVars, scenarioVars, mintVars, request>>

NftVerifyMultiple ==
    /\ MultiReady
    /\ response' = nft_verify_multiple_poaps(ItemRequests(request.asset_ids))
    /\ UNCHANGED <<regVars, poapVars, scenarioVars, mintVars, request>>

MultiNext == VerifyMultiple \/ NftVerifyMultiple

SpecVerifyMultiple == MultiInit /\ [][MultiNext]_vars

\* --------------------------------------------------------- minting scripts
MaxRecipients == 2        \* longest recipient list given to a batch

\* algosdk's constants.metadata_length (32), at the scale of HashLen
MetadataLength == HashLen

RECURSIVE SumCodes(_)
SumCodes(text) ==
    IF text = <<>> THEN 0 ELSE HexVal(Head(text)) + SumCodes(Tail(text))

\* hashlib.sha256(text.encode()).digest(): always MetadataLength bytes, and
\* not the bytes the text spells in hexadecimal
Sha256(text) ==
    [j \in 1..MetadataLength |->
        (31 * Len(text) + 7 * j + SumCodes(text)) % 256]

\* certificate_hash strings a caller may pass: the hex digest of a
\* certificate, one a byte short, one with a character lost, one not hex
ValidCertHash == Hexlify(Hash(1))
ShortCertHash == Hexlify(Truncate(Hash(1)))
OddCertHash == Truncate(ValidCertHash)
NonHexCertHash == <<"z", "z">>
CertHashInputs ==
    {ValidCertHash, ShortCertHash, OddCertHash, NonHexCertHash}

\* nft_metadata as the mint functions receive it
MetadataInputs ==
    [certificate_hash : CertHashInputs, recipient_number : {None}]

\* json.dumps(nft_metadata).encode()
JsonDumps(nft_metadata) == <<"{", nft_metadata, "}">>

\* f"{i:02d}"
Format02d(i) ==
    IF i < 10 THEN <<"0", HexDigits[i + 1]>>
    ELSE <<HexDigits[(i \div 10) + 1], HexDigits[(i % 10) + 1]>>

\* the per-recipient metadata of batch_mint_and_transfer
UniqueMetadata(nft_metadata, i) ==
    [nft_metadata EXCEPT !.recipient_number = Some(i),
                         !.certificate_hash = @ \o Format02d(i)]

\* AssetConfigTxn(total=1, decimals=0, unit_name="POAP", metadata_hash=...,
\* note=...): the constructor rejects a metadata hash of the wrong length
AssetConfigTxn(metadata_hash, note) ==
    [ok |-> Len(metadata_hash) = MetadataLength,
     txn |-> [type |-> "acfg", total |-> 1, decimals |-> 0,
              unit_name |-> POAP, metadata_hash |-> metadata_hash,
              note |-> note]]

\* ------------------------------------------------------------- the ledger
\* accounts a POAP may be sent to: the deployer itself and another account
Recipients == {deployer_address, OtherAddress}

\* asset ids are the positions of the creation transactions
AssetIds(l) == 1..Len(l.acfg)

\* the account has a holding entry for the asset
OptedIn(l, address, asset_id) == <<address, asset_id>> \in l.optin

\* an accepted asset creation: the creator holds the new asset at once
SubmitAcfg(l, txn) ==
    [l EXCEPT !.acfg = Append(@, txn),
              !.optin = @ \cup {<<deployer_address, Len(l.acfg) + 1>>}]

\* an accepted asset transfer
SubmitAxfer(l, receiver, asset_id) ==
    [l EXCEPT !.axfer =
        Append(@, [receiver |-> receiver, asset_id |-> asset_id])]

\* outcomes of one call to the node: answered, or an exception
NodeOutcomes == {"ok", "error"}

\* the wait_rounds every script passes to wait_for_confirmation
WaitRounds == 4

\* what a round of waiting finds: the transaction confirmed, an exception
\* (rejected from the pool, node unreachable), or still pending
WaitOutcomes == {"ok", "error", "pending"}

\* variant of wait_for_confirmation: when the rounds are used up the wait
\* starts over
wait_for_confirmation_starts_over(waited, found) ==
    IF found = "ok" THEN [status |-> "confirmed", waited |-> waited]
    ELSE IF found = "error" THEN [status |-> "raised", waited |-> waited]
    ELSE IF waited + 1 < WaitRounds
    THEN [status |-> "waiting", waited |-> waited + 1]
    ELSE [status |-> "waiting", waited |-> 0]

\* wait_for_confirmation(algod_client, txid, 4), one round of its loop
\* after `waited` rounds: it returns, raises, or waits for the next block,
\* and raises once WaitRounds blocks have passed
wait_for_confirmation(waited, found) ==
    IF found = "ok" THEN [status |-> "confirmed", waited |-> waited]
    ELSE IF found = "error" THEN [status |-> "raised", waited |-> waited]
    ELSE IF waited + 1 < WaitRounds
    THEN [status |-> "waiting", waited |-> waited + 1]
    ELSE [status |-> "raised", waited |-> waited]

\* ------------------------------------------------------ the running call
MintCalls ==
    [path : {"mint_nft.mint_nft", "mint.mint_nft"},
     nft_metadata : MetadataInputs]
    \cup
    [path : {"nft_gen.mint_and_transfer_poap"},
     nft_metadata : MetadataInputs, user_address : Recipients,
     auto_optin : BOOLEAN]
    \cup
    [path : {"nft_gen.batch_mint_and_transfer"},
     nft_metadata : MetadataInputs,
     user_addresses :
         UNION {[1..n -> Recipients] : n \in 0..MaxRecipients}]

\* the locals of a call at its first statement
StartCall(call) ==
    [path |-> call.path,
     pc |-> "start",
     base_metadata |-> call.nft_metadata,
     nft_metadata |-> call.nft_metadata,
     user_addresses |->
         IF call.path = "nft_gen.batch_mint_and_transfer"
         THEN call.user_addresses
         ELSE IF call.path = "nft_gen.mint_and_transfer_poap"
         THEN <<call.user_address>> ELSE <<>>,
     user_address |->
         IF call.path = "nft_gen.mint_and_transfer_poap"
         THEN call.user_address ELSE "",
     auto_optin |->
         IF call.path = "nft_gen.mint_and_transfer_poap"
         THEN call.auto_optin ELSE TRUE,
     i |-> 0,
     asset_txid |-> None,
     asset_id |-> None,
     waited |-> 0,
     results |-> <<>>,
     returned |-> None,
     raised |-> ""]

\* the call returned `value` / let the exception `name` escape
Return(m, value) == [m EXCEPT !.pc = "done", !.returned = Some(value)]
Raise(m, name) == [m EXCEPT !.pc = "done", !.raised = name]

\* ------------------------------------------------------------ mint_nft.py
\* mint_nft (mint_nft.py) up to the signed transaction: the conversion and
\* the constructor run outside any try, suggested_params inside one
mint_nft_build(m, node) ==
    LET converted == Unhexlify(m.nft_metadata.certificate_hash)
    IN  IF ~converted.ok THEN Raise(m, "binascii.Error")
        ELSE IF node = "error" THEN Return(m, None)
        ELSE IF ~AssetConfigTxn(converted.val,
                                JsonDumps(m.nft_metadata)).ok
        THEN Raise(m, "WrongMetadataLengthError")
        ELSE [m EXCEPT !.pc = "send"]

\* the transaction a built call holds
MintNftTxn(m) ==
    AssetConfigTxn(Unhexlify(m.nft_metadata.certificate_hash).val,
                   JsonDumps(m.nft_metadata)).txn

\* variant of send_creation: the transaction is sent a second time
send_creation_twice(m, l, txn, node) ==
    IF node = "error"
    THEN [mint |-> m, ledger |-> l, sent |-> FALSE]
    ELSE [mint |-> [m EXCEPT !.asset_txid = Some(Len(l.acfg) + 1),
                             !.waited = 0],
          ledger |-> SubmitAcfg(SubmitAcfg(l, txn), txn),
          sent |-> TRUE]

\* algod_client.send_transaction(signed asset creation)
send_creation(m, l, txn, node) ==
    IF node = "error"
    THEN [mint |-> m, ledger |-> l, sent |-> FALSE]
    ELSE [mint |-> [m EXCEPT !.asset_txid = Some(Len(l.acfg) + 1),
                             !.waited = 0],
          ledger |-> SubmitAcfg(l, txn),
          sent |-> TRUE]

\* mint_nft (mint_nft.py): send_transaction inside the try
mint_nft_send(m, l, node) ==
    LET s == send_creation(m, l, MintNftTxn(m), node)
    IN  IF s.sent
        THEN [mint |-> [s.mint EXCEPT !.pc = "confirm"], ledger |-> s.ledger]
        ELSE [mint |-> Return(m, None), ledger |-> l]

\* mint_nft (mint_nft.py): wait_for_confirmation and the asset id
mint_nft_confirm(m, found) ==
    LET wait == wait_for_confirmation(m.waited, found)
    IN  IF wait.status = "waiting" THEN [m EXCEPT !.waited = wait.waited]
        ELSE IF wait.status = "raised" THEN Return(m, None)
        ELSE Return([m EXCEPT !.asset_id = m.asset_txid], m.asset_txid)

\* ---------------------------------------------------------------- mint.py
\* the POST /mint transaction: its metadata hash is the SHA-256 of the
\* certificate_hash string
MintTxn(m) ==
    AssetConfigTxn(Sha256(m.nft_metadata.certificate_hash),
                   JsonDumps(m.nft_metadata)).txn

\* POST /mint up to the signed transaction; every exception becomes an
\* HTTPException with status 500
mint_build(m, node) ==
    IF node = "error" THEN Raise(m, "HTTPException")
    ELSE [m EXCEPT !.pc = "send"]

mint_send(m, l, node) ==
    LET s == send_creation(m, l, MintTxn(m), node)
    IN  IF s.sent
        THEN [mint |-> [s.mint EXCEPT !.pc = "confirm"], ledger |-> s.ledger]
        ELSE [mint |-> Raise(m, "HTTPException"), ledger |-> l]

\* POST /mint: wait_for_confirmation, the asset id, the e-mail
mint_confirm(m, found, email_sent) ==
    LET wait == wait_for_confirmation(m.waited, found)
    IN  IF wait.status = "waiting" THEN [m EXCEPT !.waited = wait.waited]
        ELSE IF wait.status = "raised" THEN Raise(m, "HTTPException")
        ELSE Return([m EXCEPT !.asset_id = m.asset_txid],
                    [txID |-> m.asset_txid[1], assetID |-> m.asset_txid[1],
                     email_sent |-> email_sent])

\* -------------------------------------------------------------- nft_gen.py
\* the dictionaries mint_and_transfer_poap returns
Failure(error, asset_id, asset_creation_txid) ==
    [success |-> FALSE, error |-> error, asset_id |-> asset_id,
     asset_creation_txid |-> asset_creation_txid]
Success(asset_id, asset_creation_txid, recipient) ==
    [success |-> TRUE, error |-> "", asset_id |-> asset_id,
     asset_creation_txid |-> asset_creation_txid, recipient |-> recipient]

\* the first statement of mint_and_transfer_poap for recipient number i
StartRecipient(m, i) ==
    [m EXCEPT !.pc = "validate",
              !.i = i,
              !.user_address = m.user_addresses[i],
              !.nft_metadata = UniqueMetadata(m.base_metadata, i),
              !.asset_txid = None,
              !.asset_id = None,
              !.waited = 0]

\* variant of batch_mint_and_transfer: the loop ends at the first failure
batch_mint_and_transfer_stops_on_failure(m, result) ==
    LET after == [m EXCEPT !.results = Append(@, result)]
    IN  IF result.success /\ m.i < Len(m.user_addresses)
        THEN StartRecipient(after, m.i + 1)
        ELSE Return(after, after.results)

\* batch_mint_and_transfer after mint_and_transfer_poap returned `result`
\* for recipient m.i: the result is appended and the loop goes on
batch_mint_and_transfer(m, result) ==
    LET after == [m EXCEPT !.results = Append(@, result)]
    IN  IF m.i < Len(m.user_addresses)
        THEN StartRecipient(after, m.i + 1)
        ELSE Return(after, after.results)

\* mint_and_transfer_poap returns `result` to its caller
ReturnResult(m, result) ==
    IF m.path = "nft_gen.batch_mint_and_transfer"
    THEN batch_mint_and_transfer(m, result)
    ELSE Return([m EXCEPT !.results = <<result>>], result)

\* check_account_exists and the validation around it
validate_user(m, node) ==
    IF node = "error"
    THEN ReturnResult(m, Failure("User account does not exist", None, None))
    ELSE [m EXCEPT !.pc = "create"]

\* step 1 of mint_and_transfer_poap up to send_transaction, all in one try
create_asset(m, l, node) ==
    LET converted == Unhexlify(m.nft_metadata.certificate_hash)
        built == AssetConfigTxn(converted.val, JsonDumps(m.nft_metadata))
        failed == [mint |-> ReturnResult(m,
                               Failure("Error creating asset", None, None)),
                   ledger |-> l]
    IN  IF ~converted.ok \/ ~built.ok THEN failed
        ELSE LET s == send_creation(m, l, built.txn, node)
             IN  IF ~s.sent THEN failed
                 ELSE [mint |-> [s.mint EXCEPT !.pc = "confirm_create"],
                       ledger |-> s.ledger]

\* step 1, wait_for_confirmation and pending_transaction_info
confirm_creation(m, found) ==
    LET wait == wait_for_confirmation(m.waited, found)
    IN  IF wait.status = "waiting" THEN [m EXCEPT !.waited = wait.waited]
        ELSE IF wait.status = "raised"
        THEN ReturnResult(m, Failure("Error creating asset", None, None))
        ELSE [m EXCEPT !.pc = "check_opt_in", !.asset_id = m.asset_txid]

\* check_asset_opt_in: False when account_info raises
check_asset_opt_in(l, user_address, asset_id, node) ==
    node = "ok" /\ OptedIn(l, user_address, asset_id)

\* step 2 of mint_and_transfer_poap
require_opt_in(m, l, node) ==
    IF ~check_asset_opt_in(l, m.user_address, m.asset_id[1], node)
       /\ m.auto_optin
    THEN ReturnResult(m, Failure("User must opt-in to the asset",
                                 m.asset_id, m.asset_txid))
    ELSE [m EXCEPT !.pc = "transfer"]

\* the ledger accepts a transfer only to an account that has opted in
TransferAccepted(l, receiver, asset_id, node) ==
    node = "ok" /\ OptedIn(l, receiver, asset_id)

\* variant of transfer_asset: a rejected transfer is taken for a sent one
transfer_asset_ignores_rejection(m, l, node) ==
    [mint |-> [m EXCEPT !.pc = "confirm_transfer", !.waited = 0],
     ledger |-> IF TransferAccepted(l, m.user_address, m.asset_id[1], node)
                THEN SubmitAxfer(l, m.user_address, m.asset_id[1])
                ELSE l]

\* variant of transfer_asset: the failure dictionary carries 'asset_id': None
\* as the failures of step 1 do
transfer_asset_forgets_asset(m, l, node) ==
    IF TransferAccepted(l, m.user_address, m.asset_id[1], node)
    THEN [mint |-> [m EXCEPT !.pc = "confirm_transfer", !.waited = 0],
          ledger |-> SubmitAxfer(l, m.user_address, m.asset_id[1])]
    ELSE [mint |-> ReturnResult(m, Failure("Asset created but transfer failed",
                                           None, None)),
          ledger |-> l]

\* step 3 of mint_and_transfer_poap up to send_transaction
transfer_asset(m, l, node) ==
    IF TransferAccepted(l, m.user_address, m.asset_id[1], node)
    THEN [mint |-> [m EXCEPT !.pc = "confirm_transfer", !.waited = 0],
          ledger |-> SubmitAxfer(l, m.user_address, m.asset_id[1])]
    ELSE [mint |-> ReturnResult(m, Failure("Asset created but transfer failed",
                                           m.asset_id, m.asset_txid)),
          ledger |-> l]

\* step 3, wait_for_confirmation and the success dictionary
confirm_transfer(m, found) ==
    LET wait == wait_for_confirmation(m.waited, found)
    IN  IF wait.status = "waiting" THEN [m EXCEPT !.waited = wait.waited]
        ELSE IF wait.status = "raised"
        THEN ReturnResult(m, Failure("Asset created but transfer failed",
                                     m.asset_id, m.asset_txid))
        ELSE ReturnResult(m, Success(m.asset_id, m.asset_txid,
                                     m.user_address))

\* ------------------------------------------------ specification: minting
MintInit ==
    /\ RegistryInit
    /\ handover = NoHandover
    /\ pool = EmptyPool
    /\ request = NoRequest
    /\ response = NoResponse
    /\ mint \in {StartCall(call) : call \in MintCalls}
    /\ ledger = EmptyLedger
    /\ poap = NoPoap

\* the running call is at label `pc` of the function `paths` names
At(paths, pc) == mint.path \in paths /\ mint.pc = pc

NftGenPaths ==
    {"nft_gen.mint_and_transfer_poap", "nft_gen.batch_mint_and_transfer"}

MintNftBuild ==
    /\ At({"mint_nft.mint_nft"}, "start")
    /\ \E node \in NodeOutcomes : mint' = mint_nft_build(mint, node)
    /\ UNCHANGED <<regVars, poapVars, scenarioVars, verifyVars, ledger>>

MintNftSend ==
    /\ At({"mint_nft.mint_nft"}, "send")
    /\ \E node \in NodeOutcomes :
           LET next == mint_nft_send(mint, ledger, node)
           IN  mint' = next.mint /\ ledger' = next.ledger
    /\ UNCHANGED <<regVars, poapVars, scenarioVars, verifyVars>>

MintNftConfirm ==
    /\ At({"mint_nft.mint_nft"}, "confirm")
    /\ \E found \in WaitOutcomes : mint' = mint_nft_confirm(mint, found)
    /\ UNCHANGED <<regVars, poapVars, scenarioVars, verifyVars, ledger>>

MintBuild ==
    /\ At({"mint.mint_nft"}, "start")
    /\ \E node \in NodeOutcomes : mint' = mint_build(mint, node)
    /\ UNCHANGED <<regVars, poapVars, scenarioVars, verifyVars, ledger>>

MintSend ==
    /\ At({"mint.mint_nft"}, "send")
    /\ \E node \in NodeOutcomes :
           LET next == mint_send(mint, ledger, node)
           IN  mint' = next.mint /\ ledger' = next.ledger
    /\ UNCHANGED <<regVars, poapVars, scenarioVars, verifyVars>>

MintConfirm ==
    /\ At({"mint.mint_nft"}, "confirm")
    /\ \E found \in WaitOutcomes, email_sent \in BOOLEAN :
           mint' = mint_confirm(mint, found, email_sent)
    /\ UNCHANGED <<regVars, poapVars, scenarioVars, verifyVars, ledger>>

\* mint_and_transfer_poap is entered: directly, or for the first recipient
\* of a batch; an empty batch returns an empty list
EnterMintAndTransfer ==
    /\ At(NftGenPaths, "start")
    /\ mint' = IF mint.user_addresses = <<>>
               THEN Return(mint, <<>>)
               ELSE IF mint.path = "nft_gen.batch_mint_and_transfer"
               THEN StartRecipient(mint, 1)
               ELSE [mint EXCEPT !.pc = "validate"]
    /\ UNCHANGED <<regVars, poapVars, scenarioVars, verifyVars, ledger>>

ValidateUser ==
    /\ At(NftGenPaths, "validate")
    /\ \E node \in NodeOutcomes : mint' = validate_user(mint, node)
    /\ UNCHANGED <<regVars, poapVars, scenarioVars, verifyVars, ledger>>

CreateAsset ==
    /\ At(NftGenPaths, "create")
    /\ \E node \in NodeOutcomes :
           LET next == create_asset(mint, ledger, node)
           IN  mint' = next.mint /\ ledger' = next.ledger
    /\ UNCHANGED <<regVars, poapVars, scenarioVars, verifyVars>>

ConfirmCreation ==
    /\ At(NftGenPaths, "confirm_create")
    /\ \E found \in WaitOutcomes : mint' = confirm_creation(mint, found)
    /\ UNCHANGED <<regVars, poapVars, scenarioVars, verifyVars, ledger>>

RequireOptIn ==
    /\ At(NftGenPaths, "check_opt_in")
    /\ \E node \in NodeOutcomes : mint' = require_opt_in(mint, ledger, node)
    /\ UNCHANGED <<regVars, poapVars, scenarioVars, verifyVars, ledger>>

TransferAsset ==
    /\ At(NftGenPaths, "transfer")
    /\ \E node \in NodeOutcomes :
           LET next == transfer_asset(mint, ledger, node)
           IN  mint' = next.mint /\ ledger' = next.ledger
    /\ UNCHANGED <<regVars, poapVars, scenarioVars, verifyVars>>

ConfirmTransfer ==
    /\ At(NftGenPaths, "confirm_transfer")
    /\ \E found \in WaitOutcomes : mint' = confirm_transfer(mint, found)
    /\ UNCHANGED <<regVars, poapVars, scenarioVars, verifyVars, ledger>>

\* a recipient opts in to an existing asset while the call runs
OptIn ==
    /\ mint.path # "none" /\ mint.pc # "done"
    /\ \E address \in Recipients, asset_id \in AssetIds(ledger) :
           /\ ~OptedIn(ledger, address, asset_id)
           /\ ledger' = [ledger EXCEPT !.optin = @ \cup {<<address, asset_id>>}]
    /\ UNCHANGED <<regVars, poapVars, scenarioVars, verifyVars, mint>>

\* an account that holds no unit of the asset closes its holding
OptOut ==
    /\ mint.path # "none" /\ mint.pc # "done"
    /\ \E address \in Recipients \ {deployer_address},
          asset_id \in AssetIds(ledger) :
           /\ OptedIn(ledger, address, asset_id)
           /\ \A k \in 1..Len(ledger.axfer) :
                  ledger.axfer[k] #
                      [receiver |-> address, asset_id |-> asset_id]
           /\ ledger' = [ledger EXCEPT !.optin = @ \ {<<address, asset_id>>}]
    /\ UNCHANGED <<regVars, poapVars, scenarioVars, verifyVars, mint>>

MintNext ==
    \/ MintNftBuild
    \/ MintNftSend
    \/ MintNftConfirm
    \/ MintBuild
    \/ MintSend
    \/ MintConfirm
    \/ EnterMintAndTransfer
    \/ ValidateUser
    \/ CreateAsset
    \/ ConfirmCreation
    \/ RequireOptIn
    \/ TransferAsset
    \/ ConfirmTransfer
    \/ OptIn
    \/ OptOut

SpecMint == MintInit /\ [][MintNext]_vars

\* the steps of the running script, as opposed to those of other accounts
MintScript ==
    \/ MintNftBuild
    \/ MintNftSend
    \/ MintNftConfirm
    \/ MintBuild
    \/ MintSend
    \/ MintConfirm
    \/ EnterMintAndTransfer
    \/ ValidateUser
    \/ CreateAsset
    \/ ConfirmCreation
    \/ RequireOptIn
    \/ TransferAsset
    \/ ConfirmTransfer

\* a script that has been started keeps running: every call to the node
\* returns or raises, and every awaited block arrives
SpecMintLive == MintInit /\ [][MintNext]_vars /\ WF_vars(MintScript)

\* ------------------------------------------- creation-transaction notes
\* bytes.decode("utf-8") on byte values: a byte of 128 or more standing
\* alone is not valid UTF-8
Utf8Decode(bytes) ==
    [ok |-> \A i \in 1..Len(bytes) : bytes[i] < 128, val |-> bytes]

\* bytes.decode("utf-8", errors="ignore"): the invalid bytes are dropped
Utf8DecodeIgnore(bytes) ==
    LET valid(b) == b < 128 IN SelectSeq(bytes, valid)

\* json.loads(text) on the texts "{}", "1" and anything else
JsonLoads(text) ==
    CASE text = <<123, 125>> -> [ok |-> TRUE, val |-> [type |-> "dict"]]
      [] text = <<49>> -> [ok |-> TRUE, val |-> [type |-> "int"]]
      [] OTHER -> [ok |-> FALSE, val |-> [type |-> "none"]]

\* the "note" of the creation transaction as the indexer renders it:
\* absent, empty, not base64, base64 of bytes that are not UTF-8, of text
\* that is not JSON, of a JSON object, of a JSON number
NoteAbsent == None
NoteEmpty == Some(<<>>)
NoteNotBase64 == Some(<<1>>)
NoteNotUtf8 == Some(Base64Encode(<<120, 255>>))
NoteNotJson == Some(Base64Encode(<<120>>))
NoteJsonObject == Some(Base64Encode(<<123, 125>>))
NoteJsonNumber == Some(Base64Encode(<<49>>))
NoteInputs ==
    {NoteAbsent, NoteEmpty, NoteNotBase64, NoteNotUtf8, NoteNotJson,
     NoteJsonObject, NoteJsonNumber}

\* `if not note_b64`
NoNote(note_b64) == note_b64 = None \/ note_b64 = Some(<<>>)

\* what extract_note_from_creation_tx gives its caller
NoteNone == [raised |-> FALSE, kind |-> "None"]
NoteMarker == [raised |-> FALSE, kind |-> "marker"]
NoteText(text) == [raised |-> FALSE, kind |-> "text", text |-> text]
NoteJson(val) == [raised |-> FALSE, kind |-> "json", val |-> val]

\* POAPVerifier.extract_note_from_creation_tx (verify.py)
extract_note_from_creation_tx(req) ==
    IF ~req.indexer_up THEN NoteMarker
    ELSE IF NoNote(req.note) THEN NoteNone
    ELSE LET note_bytes == Base64Decode(req.note[1])
             text == Utf8Decode(note_bytes.val)
         IN  IF ~note_bytes.ok THEN NoteMarker
             ELSE IF note_bytes.val = <<>> THEN NoteNone
             ELSE IF text.ok /\ JsonLoads(text.val).ok
             THEN NoteJson(JsonLoads(text.val).val)
             ELSE NoteText(Utf8DecodeIgnore(note_bytes.val))

\* POAPVerifier.extract_note_from_creation_tx (verify_nft.py)
nft_extract_note_from_creation_tx(req) ==
    IF ~req.indexer_up \/ NoNote(req.note) THEN NoteNone
    ELSE LET note_bytes == Base64Decode(req.note[1])
             text == Utf8Decode(note_bytes.val)
         IN  IF ~note_bytes.ok THEN NoteNone
             ELSE IF text.ok /\ JsonLoads(text.val).ok
             THEN NoteJson(JsonLoads(text.val).val)
             ELSE NoteText(Utf8DecodeIgnore(note_bytes.val))

\* a verification report with the note_content the flow adds to it; an
\* exception in the extraction would end the flow
WithNote(report, note_content) ==
    IF report.raised THEN report
    ELSE IF note_content.raised THEN Raised(report.entry)
    ELSE IF ~report.body.found THEN report
    ELSE Returned(report.entry,
                  [k \in DOMAIN report.body \cup {"note_content"} |->
                      IF k = "note_content" THEN note_content
                      ELSE report.body[k]])

\* full_metadata of gen.py: {} unless the note parses as JSON
GenFullMetadata(req) ==
    IF ~req.indexer_up \/ NoNote(req.note) THEN [type |-> "dict"]
    ELSE LET note_bytes == Base64Decode(req.note[1])
             text == Utf8Decode(note_bytes.val)
         IN  IF note_bytes.ok /\ text.ok /\ JsonLoads(text.val).ok
             THEN JsonLoads(text.val).val
             ELSE [type |-> "dict"]

\* get_certificate_details_from_asset_id (gen.py) with the note: the
\* full_metadata.get calls run outside the inner try, so a parsed value
\* that is no dict ends in the outer "Unexpected error" handler
gen_get_certificate_details(req) ==
    LET entry == "gen.get_certificate_details_from_asset_id"
        basic == get_certificate_details_from_asset_id(entry, req)
    IN  IF ~basic.body.found THEN basic
        ELSE IF GenFullMetadata(req).type # "dict"
        THEN Returned(entry, [success |-> FALSE, asset_id |-> req.asset_id,
                              found |-> FALSE, error |-> TRUE])
        ELSE WithNote(basic, NoteJson(GenFullMetadata(req)))

\* get_certificate_details_from_asset_id (gen_cert.py) with the note: the
\* full_metadata.get calls run inside the inner try, and every failure
\* there falls through to the basic result
gen_cert_get_certificate_details(req) ==
    LET entry == "gen_cert.get_certificate_details_from_asset_id"
        basic == get_certificate_details_from_asset_id(entry, req)
        full_metadata == GenFullMetadata(req)
    IN  IF ~basic.body.found THEN basic
        ELSE IF req.indexer_up /\ ~NoNote(req.note)
                /\ Base64Decode(req.note[1]).ok
                /\ Utf8Decode(Base64Decode(req.note[1]).val).ok
                /\ JsonLoads(Base64Decode(req.note[1]).val).ok
                /\ full_metadata.type = "dict"
        THEN WithNote(basic, NoteJson(full_metadata))
        ELSE WithNote(basic, NoteNone)

\* ------------------------------- specification: verification with a note
NoteRequests ==
    [kind : {"note"},
     asset_id : {AssetId},
     asset : {Some(ConformingParams), Some(TokenParams)},
     algod_up : {TRUE},
     indexer_up : BOOLEAN,
     expected_metadata :
         {None, Some([certificate_hash |-> Some(Hexlify(Hash(1))),
                      event |-> None])},
     note : NoteInputs]

NoteInit ==
    /\ RegistryInit
    /\ handover = NoHandover
    /\ pool = EmptyPool
    /\ request \in NoteRequests
    /\ response = NoResponse
    /\ MintIdle
    /\ poap = NoPoap

NoteReady == request.kind = "note" /\ response = NoResponse

NoteVerifyEndpoint ==
    /\ NoteReady
    /\ response' = WithNote(verify_poap(request),
                            extract_note_from_creation_tx(request))
    /\ UNCHANGED <<regVars, poapVars, scenarioVars, mintVars, request>>

NoteVerifyComprehensive ==
    /\ NoteReady
    /\ response' = WithNote(verify_comprehensive_verification(request),
                            extract_note_from_creation_tx(request))
    /\ UNCHANGED <<regVars, poapVars, scenarioVars, mintVars, request>>

NoteNftComprehensive ==
    /\ NoteReady
    /\ response' = WithNote(nft_comprehensive_verification(request),
                            nft_extract_note_from_creation_tx(request))
    /\ UNCHANGED <<regVars, poapVars, scenarioVars, mintVars, request>>

NoteGenCertificate ==
    /\ NoteReady
    /\ response' = gen_get_certificate_details(request)
    /\ UNCHANGED <<regVars, poapVars, scenarioVars, mintVars, request>>

NoteGenCertCertificate ==
    /\ NoteReady
    /\ response' = gen_cert_get_certificate_details(request)
    /\ UNCHANGED <<regVars, poapVars, scenarioVars, mintVars, request>>

NoteNext ==
    \/ NoteVerifyEndpoint
    \/ NoteVerifyComprehensive
    \/ NoteNftComprehensive
    \/ NoteGenCertificate
    \/ NoteGenCertCertificate

SpecNote == NoteInit /\ [][NoteNext]_vars

\* ----------------------------------------------------- certificate hashing
MaxFieldLen == 1          \* longest certificate field value

\* the separator of the hash input, and the characters of field values
Separator == <<"|">>
FieldChars == {"a", "|"}

\* the values one certificate field takes
FieldInputs == UNION {[1..n -> FieldChars] : n \in 0..MaxFieldLen}

\* certificate_details with its five hashed fields
CertificateDetails ==
    [event : FieldInputs, organizer : FieldInputs, date : FieldInputs,
     recipient_name : FieldInputs, recipient_address : FieldInputs]

\* variant of HashInput: organizer and event change places
HashInputOrganizerFirst(certificate_details) ==
    certificate_details.organizer \o Separator
    \o certificate_details.event \o Separator
    \o certificate_details.date \o Separator
    \o certificate_details.recipient_name \o Separator
    \o certificate_details.recipient_address

\* hash_input of verify_certificate_hash: the five fields joined by "|"
HashInput(certificate_details) ==
    certificate_details.event \o Separator
    \o certificate_details.organizer \o Separator
    \o certificate_details.date \o Separator
    \o certificate_details.recipient_name \o Separator
    \o certificate_details.recipient_address

\* hashlib.sha256(hash_input.encode('utf-8')).hexdigest()
Sha256HexDigest(text) == Hexlify(Sha256(text))

\* verify_certificate_hash (gen_cert.py); certificate_details with its five
\* fields is never falsy
verify_certificate_hash(certificate_details, certificate_hash) ==
    IF certificate_hash = <<>> THEN FALSE
    ELSE Sha256HexDigest(HashInput(certificate_details)) = certificate_hash

\* the hashes a caller supplies: none, the digest of the certificate
\* itself, the digest of another certificate
OtherCertificate ==
    [event |-> <<"a">>, organizer |-> <<"a">>, date |-> <<"a">>,
     recipient_name |-> <<"a">>, recipient_address |-> <<"a">>]
HashRequests ==
    UNION {[kind : {"hash"},
            certificate_details : {d},
            certificate_hash :
                {<<>>, Sha256HexDigest(HashInput(d)),
                 Sha256HexDigest(HashInput(OtherCertificate))}] :
           d \in CertificateDetails}

\* ------------------------------------ specification: certificate hashing
HashInit ==
    /\ RegistryInit
    /\ handover = NoHandover
    /\ pool = EmptyPool
    /\ request \in HashRequests
    /\ response = NoResponse
    /\ MintIdle
    /\ poap = NoPoap

VerifyCertificateHash ==
    /\ request.kind = "hash"
    /\ response' =
           Returned("gen_cert.verify_certificate_hash",
                    [valid |-> verify_certificate_hash(
                                   request.certificate_details,
                                   request.certificate_hash)])
    /\ UNCHANGED <<regVars, poapVars, scenarioVars, mintVars, request>>

HashNext == VerifyCertificateHash

SpecHash == HashInit /\ [][HashNext]_vars

\* ------------------------------------------------------ the POAP contract
\* (smart_contracts/poap/poap.py)
MaxArgs == 5              \* application arguments a call carries

\* n with its k low bytes dropped
RECURSIVE ShiftBytes(_, _)
ShiftBytes(n, k) == IF k = 0 THEN n ELSE ShiftBytes(n \div 256, k - 1)

\* Itob: a uint64 as 8 big-endian bytes
Itob(n) == [j \in 1..8 |-> ShiftBytes(n, 8 - j) % 256]

\* the big-endian value of a byte string
RECURSIVE BigEndian(_)
BigEndian(b) ==
    IF b = <<>> THEN 0
    ELSE 256 * BigEndian(SubSeq(b, 1, Len(b) - 1)) + b[Len(b)]

\* Btoi: fails on more than 8 bytes
Btoi(b) == IF Len(b) > 8 THEN None ELSE Some(BigEndian(b))

\* global state keys
admin_key == <<"admin">>
next_event_id_key == <<"next_event_id">>
total_events_key == <<"total_events">>
last_verify_result_key == <<"last_verify_result">>
event_info_result_key == <<"event_info_result">>
\* Concat(Bytes(prefix), Itob(event_id))
EventKey(prefix, event_id) == <<prefix, Itob(event_id)>>

\* local state of an attendee right after opt-in
OptedInLocal == [attendance_count |-> 0, last_event |-> 0]

\* App.globalGet: 0 when the key is absent; App.globalPut
globalGet(global, key) == IF key \in DOMAIN global THEN global[key] ELSE 0
globalPut(global, key, value) ==
    [k \in DOMAIN global \cup {key} |->
        IF k = key THEN value ELSE global[k]]

\* the accounts that send calls, and the values callers pass as arguments
PoapSenders == {Addr(1), Addr(2)}
ArgValues == {Itob(1), Addr(1)}

\* Txn.application_args of n arguments with a1 at index 1 and an event id
\* at index 2
ArgList(n, a1) ==
    [j \in 1..n |-> IF j = 2 THEN a1 ELSE IF j = 3 THEN Itob(1) ELSE EmptyBytes]
PoapArgLists == {ArgList(n, a1) : n \in 0..MaxArgs, a1 \in ArgValues}

\* the arms of `program` whose condition compares Txn.application_args with
\* an operation name: a call selects one of them or none
SelectedOperations ==
    {"create_event", "mint_single", "batch_mint", "verify", "get_event_info",
     "deactivate_event"}
\* the operations whose inner transaction the ledger may refuse
InnerOperations == {"create_event", "mint_single", "batch_mint"}

\* an application call
Txn(sender, on_completion, selected, application_args, inner) ==
    [sender |-> sender, application_id |-> 1,
     on_completion |-> on_completion, selected |-> selected,
     application_args |-> application_args, inner |-> inner,
     approved |-> FALSE]

\* application calls addressed to the application once it exists: plain
\* calls of every arm with every argument list, calls whose inner
\* transaction the ledger refuses, and opt-in, delete and update calls
PoapTxns ==
    {Txn(s, "NoOp", sel, args, "ok") :
        s \in PoapSenders, sel \in SelectedOperations \cup {"none"},
        args \in PoapArgLists}
    \cup {Txn(s, "NoOp", sel, ArgList(MaxArgs, Itob(1)), "error") :
            s \in PoapSenders, sel \in InnerOperations}
    \cup {Txn(s, oc, sel, ArgList(2, Itob(1)), "ok") :
            s \in PoapSenders,
            oc \in {"OptIn", "DeleteApplication", "UpdateApplication"},
            sel \in {"none", "deactivate_event"}}
\* the calls that clear an account's local state
ClearStateTxns ==
    {Txn(s, "ClearState", "none", <<>>, "ok") : s \in PoapSenders}
\* the call that creates the application
CreationTxns ==
    [sender : PoapSenders, application_id : {0}, on_completion : {"NoOp"},
     selected : {"none"}, application_args : {<<>>}, inner : {"ok"},
     approved : {FALSE}]

\* Txn.application_args[index]: fails when the call has no such argument
TxnArg(txn, index) ==
    IF index < Len(txn.application_args)
    THEN Some(txn.application_args[index + 1]) ELSE None

\* what a call leaves behind: Approve() commits the state, Reject() and any
\* failed Assert or opcode leave it as it was
Approve(global, local) ==
    [approved |-> TRUE, global |-> global, local |-> local]
Reject(p) == [approved |-> FALSE, global |-> p.global, local |-> p.local]

\* variant of is_admin: every sender passes
is_admin_everyone(p, txn) == TRUE

is_admin(p, txn) == txn.sender = globalGet(p.global, admin_key)

event_exists(p, event_id) ==
    globalGet(p.global, EventKey("event_active_", event_id)) = 1

get_event_asset_id(p, event_id) ==
    globalGet(p.global, EventKey("event_asset_id_", event_id))

on_creation(p, txn) ==
    Approve(globalPut(globalPut(globalPut(p.global,
                admin_key, txn.sender),
                next_event_id_key, 1),
                total_events_key, 0),
            p.local)

\* the ledger refuses the opt-in of an account that has opted in already
on_opt_in(p, txn) ==
    IF txn.sender \in DOMAIN p.local THEN Reject(p)
    ELSE Approve(p.global,
                 [a \in DOMAIN p.local \cup {txn.sender} |->
                     IF a = txn.sender THEN OptedInLocal ELSE p.local[a]])

\* the asset id the ledger gives the asset an event's inner transaction
\* creates: one per event
created_asset_id(event_id) == event_id

on_create_event(p, txn) ==
    IF ~is_admin(p, txn) THEN Reject(p)
    ELSE IF ~(Len(txn.application_args) >= 5) THEN Reject(p)
    ELSE IF \E index \in {1, 22, 23, 24} : TxnArg(txn, index) = None
    THEN Reject(p)
    ELSE IF txn.inner = "error" THEN Reject(p)
    ELSE LET create_event_name == TxnArg(txn, 1)[1]
             create_event_date == TxnArg(txn, 22)[1]
             create_event_organizer == TxnArg(txn, 23)[1]
             create_event_id == globalGet(p.global, next_event_id_key)
             g1 == globalPut(p.global,
                       EventKey("event_name_", create_event_id),
                       create_event_name)
             g2 == globalPut(g1, EventKey("event_date_", create_event_id),
                       create_event_date)
             g3 == globalPut(g2,
                       EventKey("event_organizer_", create_event_id),
                       create_event_organizer)
             g4 == globalPut(g3,
                       EventKey("event_asset_id_", create_event_id),
                       created_asset_id(create_event_id))
             g5 == globalPut(g4, EventKey("event_active_", create_event_id),
                       1)
             g6 == globalPut(g5, next_event_id_key, create_event_id + 1)
             g7 == globalPut(g6, total_events_key,
                       globalGet(p.global, total_events_key) + 1)
         IN  Approve(g7, p.local)

\* the local-state update of a mint: only for a recipient that opted in
RecordAttendance(local, recipient, event_id) ==
    IF recipient \in DOMAIN local
    THEN [local EXCEPT
             ![recipient] =
                 [attendance_count |-> local[recipient].attendance_count + 1,
                  last_event |-> event_id]]
    ELSE local

on_batch_mint(p, txn) ==
    IF ~is_admin(p, txn) THEN Reject(p)
    ELSE IF ~(Len(txn.application_args) >= 3) THEN Reject(p)
    ELSE IF TxnArg(txn, 1) = None \/ TxnArg(txn, 22) = None THEN Reject(p)
    ELSE IF Btoi(TxnArg(txn, 1)[1]) = None THEN Reject(p)
    ELSE LET batch_event_id == Btoi(TxnArg(txn, 1)[1])[1]
             current_recipient == txn.sender
         IN  IF ~event_exists(p, batch_event_id) THEN Reject(p)
             ELSE IF txn.inner = "error" THEN Reject(p)
             ELSE Approve(p.global,
                          RecordAttendance(p.local, current_recipient,
                                           batch_event_id))

on_mint_single(p, txn) ==
    IF ~is_admin(p, txn) THEN Reject(p)
    ELSE IF ~(Len(txn.application_args) >= 3) THEN Reject(p)
    ELSE IF TxnArg(txn, 1) = None \/ TxnArg(txn, 22) = None THEN Reject(p)
    ELSE IF Btoi(TxnArg(txn, 1)[1]) = None THEN Reject(p)
    ELSE LET mint_event_id == Btoi(TxnArg(txn, 1)[1])[1]
             mint_recipient == TxnArg(txn, 22)[1]
         IN  IF ~event_exists(p, mint_event_id) THEN Reject(p)
             ELSE IF txn.inner = "error" THEN Reject(p)
             ELSE Approve(p.global,
                          RecordAttendance(p.local, mint_recipient,
                                           mint_event_id))

on_verify_attendance(p, txn) ==
    IF ~(Len(txn.application_args) >= 3) THEN Reject(p)
    ELSE IF TxnArg(txn, 1) = None \/ TxnArg(txn, 22) = None THEN Reject(p)
    ELSE IF Btoi(TxnArg(txn, 22)[1]) = None THEN Reject(p)
    ELSE LET verify_event_id == Btoi(TxnArg(txn, 22)[1])[1]
         IN  IF event_exists(p, verify_event_id)
             THEN Approve(globalPut(p.global, last_verify_result_key, 1),
                          p.local)
             ELSE Approve(globalPut(p.global, last_verify_result_key, 0),
                          p.local)

on_get_event_info(p, txn) ==
    IF ~(Len(txn.application_args) >= 2) THEN Reject(p)
    ELSE IF TxnArg(txn, 1) = None THEN Reject(p)
    ELSE IF Btoi(TxnArg(txn, 1)[1]) = None THEN Reject(p)
    ELSE LET get_info_event_id == Btoi(TxnArg(txn, 1)[1])[1]
         IN  IF event_exists(p, get_info_event_id)
             THEN Approve(globalPut(p.global, event_info_result_key, 1),
                          p.local)
             ELSE Approve(globalPut(p.global, event_info_result_key, 0),
                          p.local)

on_deactivate_event(p, txn) ==
    IF ~is_admin(p, txn) THEN Reject(p)
    ELSE IF ~(Len(txn.application_args) >= 2) THEN Reject(p)
    ELSE IF TxnArg(txn, 1) = None THEN Reject(p)
    ELSE IF Btoi(TxnArg(txn, 1)[1]) = None THEN Reject(p)
    ELSE LET deactivate_event_id == Btoi(TxnArg(txn, 1)[1])[1]
         IN  Approve(globalPut(p.global,
                         EventKey("event_active_", deactivate_event_id), 0),
                     p.local)

\* the arm of `program` a call takes: Cond runs the first arm whose
\* condition holds and fails when none does
Arm(txn) ==
    IF txn.application_id = 0 THEN "on_creation"
    ELSE IF txn.on_completion = "OptIn" THEN "on_opt_in"
    ELSE IF txn.on_completion = "DeleteApplication" THEN "delete"
    ELSE IF txn.on_completion = "UpdateApplication" THEN "update"
    ELSE IF txn.selected = "create_event" THEN "on_create_event"
    ELSE IF txn.selected = "mint_single" THEN "on_mint_single"
    ELSE IF txn.selected = "batch_mint" THEN "on_batch_mint"
    ELSE IF txn.selected = "verify" THEN "on_verify_attendance"
    ELSE IF txn.selected = "get_event_info" THEN "on_get_event_info"
    ELSE IF txn.selected = "deactivate_event" THEN "on_deactivate_event"
    ELSE "none"

program(p, txn) ==
    CASE Arm(txn) = "on_creation" -> on_creation(p, txn)
      [] Arm(txn) = "on_opt_in" -> on_opt_in(p, txn)
      [] Arm(txn) = "delete" -> Reject(p)
      [] Arm(txn) = "update" -> Reject(p)
      [] Arm(txn) = "on_create_event" -> on_create_event(p, txn)
      [] Arm(txn) = "on_mint_single" -> on_mint_single(p, txn)
      [] Arm(txn) = "on_batch_mint" -> on_batch_mint(p, txn)
      [] Arm(txn) = "on_verify_attendance" -> on_verify_attendance(p, txn)
      [] Arm(txn) = "on_get_event_info" -> on_get_event_info(p, txn)
      [] Arm(txn) = "on_deactivate_event" -> on_deactivate_event(p, txn)
      [] OTHER -> Reject(p)

\* clear_state_program: Approve(); the ledger then drops the sender's
\* local state, and refuses the call of an account that has none
clear_state_program(p, txn) ==
    IF txn.sender \notin DOMAIN p.local THEN Reject(p)
    ELSE Approve(p.global,
                 [a \in DOMAIN p.local \ {txn.sender} |-> p.local[a]])

\* the ledger runs one call to completion
RunCall(p, txn) ==
    LET r == IF txn.on_completion = "ClearState"
             THEN clear_state_program(p, txn) ELSE program(p, txn)
    IN  [created |-> p.created \/ (txn.application_id = 0 /\ r.approved),
         global |-> r.global, local |-> r.local,
         last |-> [txn EXCEPT !.approved = r.approved]]

\* ------------------------------------ specification: the POAP application
PoapInit ==
    /\ RegistryInit
    /\ handover = NoHandover
    /\ pool = EmptyPool
    /\ OffchainIdle
    /\ poap = NoPoap

CreateApplication ==
    /\ ~poap.created
    /\ \E txn \in CreationTxns : poap' = RunCall(poap, txn)
    /\ UNCHANGED <<regVars, scenarioVars, offchainVars>>
OptInApplication ==
    /\ poap.created
    /\ \E txn \in PoapTxns :
           /\ Arm(txn) = "on_opt_in"
           /\ poap' = RunCall(poap, txn)
    /\ UNCHANGED <<regVars, scenarioVars, offchainVars>>
DeleteApplication ==
    /\ poap.created
    /\ \E txn \in PoapTxns :
           /\ Arm(txn) = "delete"
           /\ poap' = RunCall(poap, txn)
    /\ UNCHANGED <<regVars, scenarioVars, offchainVars>>
UpdateApplication ==
    /\ poap.created
    /\ \E txn \in PoapTxns :
           /\ Arm(txn) = "update"
           /\ poap' = RunCall(poap, txn)
    /\ UNCHANGED <<regVars, scenarioVars, offchainVars>>
CreateEvent ==
    /\ poap.created
    /\ \E txn \in PoapTxns :
           /\ Arm(txn) = "on_create_event"
           /\ poap' = RunCall(poap, txn)
    /\ UNCHANGED <<regVars, scenarioVars, offchainVars>>
MintSingle ==
    /\ poap.created
    /\ \E txn \in PoapTxns :
           /\ Arm(txn) = "on_mint_single"
           /\ poap' = RunCall(poap, txn)
    /\ UNCHANGED <<regVars, scenarioVars, offchainVars>>
BatchMint ==
    /\ poap.created
    /\ \E txn \in PoapTxns :
           /\ Arm(txn) = "on_batch_mint"
           /\ poap' = RunCall(poap, txn)
    /\ UNCHANGED <<regVars, scenarioVars, offchainVars>>
VerifyAttendance ==
    /\ poap.created
    /\ \E txn \in PoapTxns :
           /\ Arm(txn) = "on_verify_attendance"
           /\ poap' = RunCall(poap, txn)
    /\ UNCHANGED <<regVars, scenarioVars, offchainVars>>
GetEventInfo ==
    /\ poap.created
    /\ \E txn \in PoapTxns :
           /\ Arm(txn) = "on_get_event_info"
           /\ poap' = RunCall(poap, txn)
    /\ UNCHANGED <<regVars, scenarioVars, offchainVars>>
DeactivateEvent ==
    /\ poap.created
    /\ \E txn \in PoapTxns :
           /\ Arm(txn) = "on_deactivate_event"
           /\ poap' = RunCall(poap, txn)
    /\ UNCHANGED <<regVars, scenarioVars, offchainVars>>
UnroutedCall ==
    /\ poap.created
    /\ \E txn \in PoapTxns :
           /\ Arm(txn) = "none"
           /\ poap' = RunCall(poap, txn)
    /\ UNCHANGED <<regVars, scenarioVars, offchainVars>>

ClearState ==
    /\ poap.created
    /\ \E txn \in ClearStateTxns : poap' = RunCall(poap, txn)
    /\ UNCHANGED <<regVars, scenarioVars, offchainVars>>

PoapNext ==
    \/ CreateApplication
    \/ ClearState
    \/ OptInApplication
    \/ DeleteApplication
    \/ UpdateApplication
    \/ CreateEvent
    \/ MintSingle
    \/ BatchMint
    \/ VerifyAttendance
    \/ GetEventInfo
    \/ DeactivateEvent
    \/ UnroutedCall

SpecPoap == PoapInit /\ [][PoapNext]_vars

\* ----------------------------------------------------------------- claims
\* what verify_certificate(cert_hash) returns when run on box storage `boxes`
VerifyReturn(boxes, cert_hash) == BoxGet(boxes, cert_hash, EmptyBytes)

\* an entry (box) exists for cert_hash
Registered(cert_hash) == cert_hash \in DOMAIN certificates

\* the step just taken was the call `op` on cert_hash
Called(call, op, cert_hash) == call.op = op /\ call.cert_hash = cert_hash

\* C1: register_certificate(h) by any caller A on a hash h that has no entry
\* succeeds, and verify_certificate(h) on the resulting state returns A.
C1_RegisterUnregistered ==
    [][\A h \in Hashes :
         (~Registered(h) /\ Called(lastCall', "register_certificate", h))
         => /\ lastCall'.ok
            /\ VerifyReturn(certificates', h) = lastCall'.sender]_vars

C1_Witness ==
    /\ lastCall.op = "register_certificate"
    /\ lastCall.ok
    /\ register_count[lastCall.cert_hash] = 1
    /\ certificates[lastCall.cert_hash] = lastCall.sender
    /\ lastCall.sender # Creator

\* C2: register_certificate(h) on a hash h that already has an entry is
\* rejected for every caller and leaves the whole mapping unchanged.
C2_RegisterRegisteredRejected ==
    [][\A h \in Hashes :
         (Registered(h) /\ Called(lastCall', "register_certificate", h))
         => /\ ~lastCall'.ok
            /\ certificates' = certificates]_vars

\* C3: for a registered hash h with owner O, transfer_certificate(h, N) by
\* any identity other than O is rejected for every N, mapping unchanged.
C3_TransferByNonOwnerRejected ==
    [][\A h \in Hashes :
         (/\ Registered(h)
          /\ Called(lastCall', "transfer_certificate", h)
          /\ lastCall'.sender # certificates[h])
         => /\ ~lastCall'.ok
            /\ certificates' = certificates]_vars

C3_Witness ==
    /\ lastCall.op = "transfer_certificate"
    /\ ~lastCall.ok
    /\ lastCall.cert_hash \in DOMAIN certificates
    /\ certificates[lastCall.cert_hash] \in Accounts
    /\ certificates[lastCall.cert_hash] # lastCall.sender
    /\ lastCall.new_owner = lastCall.sender

\* C4: for a registered hash h with owner O and every byte string N,
\* transfer_certificate(h, N) by O succeeds, and verify_certificate(h) on
\* the resulting state returns N.
C4_TransferByOwnerSucceeds ==
    [][\A h \in Hashes :
         (/\ Registered(h)
          /\ Called(lastCall', "transfer_certificate", h)
          /\ lastCall'.sender = certificates[h])
         => /\ lastCall'.ok
            /\ VerifyReturn(certificates', h) = lastCall'.new_owner]_vars

C4_Witness ==
    /\ lastCall.op = "transfer_certificate"
    /\ lastCall.ok
    /\ lastCall.new_owner \in Accounts \ {lastCall.sender}
    /\ certificates[lastCall.cert_hash] = lastCall.new_owner

\* C5: transfer_certificate(h, N) on a hash h that has no entry is rejected
\* for every caller and every N, and the mapping is unchanged (no entry is
\* created for h).
C5_TransferUnregisteredRejected ==
    [][\A h \in Hashes :
         (~Registered(h) /\ Called(lastCall', "transfer_certificate", h))
         => /\ ~lastCall'.ok
            /\ certificates' = certificates
            /\ h \notin DOMAIN certificates']_vars

C5_Witness ==
    /\ lastCall.op = "transfer_certificate"
    /\ ~lastCall.ok
    /\ lastCall.cert_hash \notin DOMAIN certificates

\* C6: verify_certificate(h) on a hash h that has no entry completes
\* successfully and returns the empty byte string.
C6_VerifyUnregisteredReturnsEmpty ==
    [][\A h \in Hashes :
         (~Registered(h) /\ Called(lastCall', "verify_certificate", h))
         => /\ lastCall'.ok
            /\ lastCall'.ret = EmptyBytes]_vars

C6_Witness ==
    /\ lastCall.op = "verify_certificate"
    /\ lastCall.ok
    /\ lastCall.ret = EmptyBytes
    /\ lastCall.cert_hash \notin DOMAIN certificates

\* C7: verify_certificate is a pure read: for every hash and caller the
\* mapping after the call equals the mapping before it, so verifying an
\* unregistered hash creates no entry.
C7_VerifyIsPureRead ==
    [][lastCall'.op = "verify_certificate"
         => /\ certificates' = certificates
            /\ DOMAIN certificates' = DOMAIN certificates]_vars

C7_Witness ==
    /\ lastCall.op = "verify_certificate"
    /\ lastCall.cert_hash \in DOMAIN certificates
    /\ lastCall.ret = certificates[lastCall.cert_hash]
    /\ lastCall.ret \in Accounts
    /\ \E g \in Hashes : g \notin DOMAIN certificates

\* C8: in every step in which the owner recorded for an already-registered
\* hash h changes, the sender of the call equals the owner recorded for h
\* immediately before the step.
C8_OnlyOwnerChangesOwner ==
    [][\A h \in Hashes :
         (Registered(h) /\ certificates'[h] # certificates[h])
         => lastCall'.sender = certificates[h]]_vars

\* C9: for every hash h, at most one register_certificate(h) call ever
\* succeeds.
C9_RegisterSucceedsAtMostOnce ==
    \A h \in Hashes : register_count[h] <= 1

\* C10: once register_certificate(h) has succeeded, h is never Unregistered
\* again: verify_certificate(h) never returns the empty sentinel.
C10_NeverUnregisteredAgain ==
    \A h \in Hashes :
        register_count[h] >= 1 => VerifyReturn(certificates, h) # EmptyBytes

\* C11: after owner A has transferred h to another principal B, every
\* transfer_certificate(h, C) submitted by A is rejected and
\* verify_certificate(h) keeps returning B, until B itself transfers h.
C11_FormerOwnerLosesRights ==
    [][handover # NoHandover
         => /\ (/\ Called(lastCall', "transfer_certificate", TrackedHash)
                /\ lastCall'.sender = handover.from)
               => ~lastCall'.ok
            /\ ~(/\ Called(lastCall', "transfer_certificate", TrackedHash)
                 /\ lastCall'.sender = handover.to
                 /\ lastCall'.ok)
               => VerifyReturn(certificates', TrackedHash) = handover.to]_vars

C11_Witness ==
    /\ handover # NoHandover
    /\ lastCall.op = "transfer_certificate"
    /\ lastCall.sender = handover.from
    /\ lastCall.new_owner = handover.from
    /\ ~lastCall.ok
    /\ certificates[TrackedHash] = handover.to

\* C12: when two different identities A and B (and nobody else) both submit
\* register_certificate(h) for the same unregistered h, then in every order
\* of execution exactly one of the two calls succeeds, the other is
\* rejected, and the owner of h is the identity whose call succeeded.
C12_OneRegistrationWins ==
    \A h \in Hashes : \A a, b \in Accounts :
        LET ta == [sender |-> a, cert_hash |-> h]
            tb == [sender |-> b, cert_hash |-> h]
        IN  (/\ a # b
             /\ {t \in DOMAIN pool : t.cert_hash = h} = {ta, tb}
             /\ pool[ta] # "pending" /\ pool[tb] # "pending")
            => /\ {pool[ta], pool[tb]} = {"ok", "rejected"}
               /\ VerifyReturn(certificates, h) =
                      IF pool[ta] = "ok" THEN a ELSE b

C12_Witness ==
    \E h \in Hashes :
        LET ta == [sender |-> Addr(1), cert_hash |-> h]
            tb == [sender |-> Addr(2), cert_hash |-> h]
        IN  /\ ta \in DOMAIN pool /\ tb \in DOMAIN pool
            /\ pool[ta] = "rejected" /\ pool[tb] = "ok"
            /\ certificates[h] = Addr(2)

\* C13: after the owner performs transfer_certificate(h, N) with N a byte
\* string that is not the identity of any principal, no later call ever
\* changes the owner recorded for h.
C13_OrphanedForever ==
    [][\A h \in Hashes :
         (Registered(h) /\ certificates[h] \notin Accounts)
         => certificates'[h] = certificates[h]]_vars

\* the entry points that produce a structural verification report
StructuralVerifiers ==
    {"verify.verify_poap", "verify.comprehensive_verification",
     "verify_nft.comprehensive_verification"}

\* the asset exists with supply 1, no decimals, unit name "POAP", a name
\* containing "POAP" and the deployer as creator, and algod serves it
ConformingAsset(req) ==
    /\ req.asset # None
    /\ req.algod_up
    /\ req.asset[1].total = Some(1)
    /\ req.asset[1].decimals = Some(0)
    /\ req.asset[1].unit_name = Some(POAP)
    /\ req.asset[1].name # None
    /\ Contains(POAP, req.asset[1].name[1])
    /\ req.asset[1].creator = Some(deployer_address)

\* C14: structural verification of a conforming asset passes all four
\* structural checks and yields overall_valid = true in every verifier.
C14_ConformingAssetIsValid ==
    (response.entry \in StructuralVerifiers /\ ConformingAsset(request))
    => /\ ~response.raised
       /\ response.body.found
       /\ response.body.verification_results.is_nft
       /\ response.body.verification_results.correct_unit_name
       /\ response.body.verification_results.correct_name_format
       /\ response.body.verification_results.correct_creator
       /\ response.body.overall_valid

NotFoundEntries ==
    {"verify.verify_poap", "verify.verify_multiple_poaps",
     "verify_nft.comprehensive_verification",
     "gen.get_certificate_details_from_asset_id",
     "gen_cert.get_certificate_details_from_asset_id"}

\* C19: every verification or extraction entry point, given an asset id
\* that does not exist on the ledger, returns a structured not-found/error
\* result instead of raising an exception to its caller.
C19_MissingAssetIsReported ==
    (response.entry \in NotFoundEntries /\ request.asset = None)
    => /\ ~response.raised
       /\ IF response.entry = "verify.verify_multiple_poaps"
          THEN ~response.body.results[1].found
          ELSE ~response.body.found

\* C20: verify_multiple_poaps returns exactly one result per input id, in
\* input order; ids whose asset is missing get a failure result and every
\* other id still gets its full verification report.
C20_MissingAssetFailsOnlyItself ==
    response.entry \in {"verify.verify_multiple_poaps",
                        "verify_nft.verify_multiple_poaps"}
    => /\ ~response.raised
       /\ Len(response.body.results) = Len(request.asset_ids)
       /\ \A i \in 1..Len(request.asset_ids) :
              LET result == response.body.results[i]
              IN  IF LedgerAsset(request.asset_ids[i]) = None
                  THEN ~result.found
                  ELSE /\ result.found
                       /\ result.asset_id = request.asset_ids[i]
                       /\ "verification_results" \in DOMAIN result

\* the creation transaction `txn` was built from the metadata `nft_metadata`
CarriesCertificate(txn, nft_metadata) ==
    /\ txn.note = JsonDumps(nft_metadata)
    /\ Len(txn.metadata_hash) = MetadataLength
    /\ mint.path # "mint.mint_nft"
           => Hexlify(txn.metadata_hash) = nft_metadata.certificate_hash

\* the asset id a finished call reports to its caller, None if it reports none
ReportedAssetId ==
    IF mint.pc # "done" \/ mint.returned = None THEN None
    ELSE IF mint.path = "mint_nft.mint_nft" THEN mint.returned[1]
    ELSE IF mint.path = "mint.mint_nft" THEN Some(mint.returned[1].assetID)
    ELSE IF mint.path = "nft_gen.mint_and_transfer_poap"
    THEN mint.returned[1].asset_id
    ELSE None

RecipientNumber(txn) == txn.note[2].recipient_number[1]

\* C17 as stated: once mint_and_transfer_poap has failed for recipient i of
\* a batch, no mint is attempted for any recipient j > i.
C17_FailureStopsBatch ==
    mint.path = "nft_gen.batch_mint_and_transfer"
    => \A i \in 1..Len(mint.results) :
           ~mint.results[i].success
           => \A k \in AssetIds(ledger) :
                  RecipientNumber(ledger.acfg[k]) <= i

IsPrefix(s, t) == Len(s) <= Len(t) /\ SubSeq(t, 1, Len(s)) = s

BatchIsSequential ==
    mint.path = "nft_gen.batch_mint_and_transfer"
    => /\ mint.pc \notin {"start", "done"}
              => Len(mint.results) = mint.i - 1
       /\ \A k \in AssetIds(ledger) :
              RecipientNumber(ledger.acfg[k]) <= mint.i
       /\ mint.pc = "done"
              => /\ Len(mint.results) = Len(mint.user_addresses)
                 /\ mint.i = Len(mint.user_addresses)
                 /\ mint.returned = Some(mint.results)
       /\ \A i \in 1..Len(mint.results) :
              mint.results[i].success
              => mint.results[i].recipient = mint.user_addresses[i]

NothingIsRolledBack ==
    /\ IsPrefix(ledger.acfg, ledger'.acfg)
    /\ IsPrefix(ledger.axfer, ledger'.axfer)
    /\ IsPrefix(mint.results, mint'.results)

\* C17 (amended): a batch processes its recipients one at a time in input
\* order with no rollback, and a failure does not stop it: the call ends
\* only after mint_and_transfer_poap has run for every recipient, with one
\* result per recipient, and whatever was submitted stays on the ledger.
C17_FailureDoesNotStopBatch ==
    []BatchIsSequential /\ [][NothingIsRolledBack]_vars

C17_Witness ==
    /\ mint.path = "nft_gen.batch_mint_and_transfer"
    /\ mint.pc = "done"
    /\ Len(mint.results) = 2
    /\ ~mint.results[1].success
    /\ mint.results[1].asset_id # None
    /\ mint.results[2].asset_id # None
    /\ mint.results[2].success

OptedInWhenSubmitted ==
    Len(ledger'.axfer) > Len(ledger.axfer)
    => LET sent == ledger'.axfer[Len(ledger'.axfer)]
       IN  OptedIn(ledger, sent.receiver, sent.asset_id)

SuccessMeansTransferred ==
    mint.path \in NftGenPaths
    => \A i \in 1..Len(mint.results) :
           mint.results[i].success
           => LET result == mint.results[i]
              IN  /\ result.asset_id # None
                  /\ \E k \in 1..Len(ledger.axfer) :
                         ledger.axfer[k] =
                             [receiver |-> result.recipient,
                              asset_id |-> result.asset_id[1]]
                  /\ OptedIn(ledger, result.recipient, result.asset_id[1])

\* C18: mint_and_transfer_poap returns success = True only if the transfer
\* to the recipient was accepted by the ledger, and the ledger accepts a
\* transfer only to a recipient opted in when it is submitted; so for a
\* recipient who never opts in it never returns success = True, for either
\* value of auto_optin.
C18_SuccessRequiresOptIn ==
    []SuccessMeansTransferred /\ [][OptedInWhenSubmitted]_vars

C18_Witness ==
    /\ mint.path = "nft_gen.mint_and_transfer_poap"
    /\ ~mint.auto_optin
    /\ mint.user_address = OtherAddress
    /\ mint.pc = "done"
    /\ mint.results[1].success
    /\ OptedIn(ledger, OtherAddress, 1)

\* C27: a successful register_certificate(h) or transfer_certificate(h, N)
\* changes only the entry of h: for every other hash g, the owner recorded
\* for g, or its absence, is the same before and after the call.
C27_OtherEntriesUntouched ==
    [][(lastCall'.ok /\ lastCall'.op \in {"register_certificate",
                                          "transfer_certificate"})
       => \A g \in Hashes \ {lastCall'.cert_hash} :
              /\ Registered(g)' <=> Registered(g)
              /\ Registered(g) => certificates'[g] = certificates[g]]_vars

C27_Witness ==
    /\ Called(lastCall, "transfer_certificate", lastCall.cert_hash)
    /\ lastCall.ok
    /\ \E g \in Hashes \ {lastCall.cert_hash} :
           /\ Registered(g)
           /\ certificates[g] # certificates[lastCall.cert_hash]

\* the three public minting operations
MintOperations ==
    {"mint_nft.mint_nft", "mint.mint_nft", "nft_gen.mint_and_transfer_poap"}

\* the finished call gave its caller a failure result with a reason: a
\* dictionary with success = False and an error text, or the HTTP error
\* response FastAPI builds from an HTTPException
StructuredFailure ==
    \/ mint.raised = "HTTPException"
    \/ /\ mint.raised = ""
       /\ mint.returned # None
       /\ mint.returned[1] # None
       /\ "success" \in DOMAIN mint.returned[1]
       /\ ~mint.returned[1].success
       /\ mint.returned[1].error # ""

\* C22: every public minting operation ends with a structured result: when
\* a ledger call fails or certificate_hash is malformed, a failure result
\* that carries a reason, never an uncaught exception and never a bare None.
C22_FailureIsStructured ==
    (mint.path \in MintOperations /\ mint.pc = "done"
        /\ ReportedAssetId = None)
    => StructuredFailure

\* C23: every mint or transfer flow terminates, and after submitting a
\* transaction it waits fewer than WaitRounds (4) further rounds: a
\* transaction still pending then ends the wait with a failure, with no
\* retry.
C23_BoundedWait ==
    /\ <>(mint.pc = "done")
    /\ [](mint.path # "none" => mint.waited < WaitRounds)
    /\ [][IsPrefix(ledger.acfg, ledger'.acfg)
          /\ Len(ledger'.acfg) <= Len(ledger.acfg) + 1]_vars

C23_Witness ==
    /\ mint.path = "nft_gen.mint_and_transfer_poap"
    /\ mint.pc = "done"
    /\ mint.waited = WaitRounds - 1
    /\ ~mint.results[1].success
    /\ Len(ledger.acfg) = 1
    /\ Len(ledger.axfer) = 1

\* C25: in mint_and_transfer_poap, once the creation is confirmed, every
\* step that ends the call in failure (recipient not opted in, transfer
\* rejected, transfer not confirmed) returns success = False together with
\* the created asset_id and asset_creation_txid, and the asset stays on the
\* ledger.
C25_FailureKeepsAsset ==
    [][(/\ mint.path \in NftGenPaths
        /\ mint.pc \in {"check_opt_in", "transfer", "confirm_transfer"}
        /\ Len(mint'.results) = Len(mint.results) + 1
        /\ ~mint'.results[Len(mint'.results)].success)
       => LET result == mint'.results[Len(mint'.results)]
          IN  /\ mint.asset_id # None
              /\ result.asset_id = mint.asset_id
              /\ result.asset_creation_txid = mint.asset_txid
              /\ result.asset_creation_txid # None
              /\ IsPrefix(ledger.acfg, ledger'.acfg)
              /\ mint.asset_id[1] \in AssetIds(ledger')]_vars

C25_Witness ==
    /\ mint.path = "nft_gen.mint_and_transfer_poap"
    /\ ~mint.auto_optin
    /\ mint.pc = "done"
    /\ ~mint.results[1].success
    /\ mint.results[1].asset_id = Some(1)
    /\ Len(ledger.acfg) = 1
    /\ Len(ledger.axfer) = 0

\* C26: for every mint path and every valid certificate_hash H, the asset
\* minted from H passes verify_metadata_hash when the expected metadata
\* carries the same H.
C26_MintedDigestVerifies ==
    (/\ mint.path \in MintOperations
     /\ mint.base_metadata.certificate_hash = ValidCertHash)
    => \A asset_id \in AssetIds(ledger) :
           verify_metadata_hash(
               [certificate_hash |-> Some(ValidCertHash), event |-> None],
               Base64Encode(ledger.acfg[asset_id].metadata_hash))

\* the entry points that call extract_note_from_creation_tx
NoteVerifiers ==
    {"verify.verify_poap", "verify.comprehensive_verification",
     "verify_nft.comprehensive_verification"}

\* what the claim allows as note_content for the note of the request
NoteContentAsClaimed(note_content) ==
    IF ~request.indexer_up THEN note_content.kind \in {"None", "marker"}
    ELSE CASE request.note = NoteJsonObject ->
                  note_content = NoteJson([type |-> "dict"])
           [] request.note = NoteJsonNumber ->
                  note_content = NoteJson([type |-> "int"])
           [] request.note = NoteNotJson ->
                  note_content = NoteText(<<120>>)
           [] request.note = NoteNotUtf8 ->
                  note_content.kind \in {"text", "None", "marker"}
           [] OTHER -> note_content.kind \in {"None", "marker"}

\* C21: a malformed note never aborts verification: for every note of the
\* creation transaction the extraction returns without raising (parsed JSON
\* for valid JSON, the decoded text when it is not JSON, None or an error
\* marker otherwise), and the surrounding flow still returns its structural
\* results for the asset.
C21_MalformedNoteNeverAborts ==
    (request.kind = "note" /\ response.entry # "none")
    => /\ ~response.raised
       /\ response.body.found
       /\ response.entry \in NoteVerifiers
              => /\ "verification_results" \in DOMAIN response.body
                 /\ NoteContentAsClaimed(response.body.note_content)
       /\ response.entry \notin NoteVerifiers
              => "certificate_hash" \in DOMAIN response.body

\* the five hashed fields, in hashing order
HashedFields ==
    <<"event", "organizer", "date", "recipient_name", "recipient_address">>

\* C24: verify_certificate_hash hashes exactly event, organizer, date,
\* recipient_name, recipient_address joined in that order by "|", returns
\* true iff the digest of that text equals the supplied hash (the same
\* answer on every call), and changing any single field changes the hashed
\* text.
C24_HashIsDeterministic ==
    response.entry = "gen_cert.verify_certificate_hash"
    => LET d == request.certificate_details
           joined == d.event \o <<"|">> \o d.organizer \o <<"|">> \o d.date
                     \o <<"|">> \o d.recipient_name \o <<"|">>
                     \o d.recipient_address
       IN  /\ ~response.raised
           /\ HashInput(d) = joined
           /\ response.body.valid
                  <=> (Sha256HexDigest(joined) = request.certificate_hash)
           /\ \A i \in 1..Len(HashedFields) : \A v \in FieldInputs :
                  v # d[HashedFields[i]]
                  => HashInput([d EXCEPT ![HashedFields[i]] = v])
                         # HashInput(d)

C24_Witness ==
    /\ response.entry = "gen_cert.verify_certificate_hash"
    /\ response.body.valid
    /\ request.certificate_details.event = <<"|">>
    /\ request.certificate_details.organizer = <<>>

\* C28: two certificates that differ in at least one of the five fields
\* never produce the same "|"-joined hash input, also when field values
\* contain "|".
C28_HashInputIsInjective ==
    response.entry = "gen_cert.verify_certificate_hash"
    => \A other \in CertificateDetails :
           other # request.certificate_details
           => HashInput(other) # HashInput(request.certificate_details)

\* a plain call of one of the administrative operations
AdminCall(txn) ==
    /\ txn.on_completion = "NoOp"
    /\ txn.selected \in
           {"create_event", "mint_single", "batch_mint", "deactivate_event"}

\* the call left global and local state as they were
PoapStateKept ==
    /\ poap'.global = poap.global
    /\ poap'.local = poap.local

\* C29: in the POAP contract create_event, mint_single, batch_mint and
\* deactivate_event are rejected with no state change unless the sender is
\* the admin recorded at creation, the admin value never changes after
\* creation, and every DeleteApplication or UpdateApplication call is
\* rejected.
C29_AdminOnlyAndPermanent ==
    [][LET txn == poap'.last
       IN  IF ~poap.created
           THEN poap'.created => poap'.global[admin_key] = txn.sender
           ELSE /\ (AdminCall(txn) /\ txn.sender # poap.global[admin_key])
                   => ~txn.approved /\ PoapStateKept
                /\ admin_key \in DOMAIN poap'.global
                /\ poap'.global[admin_key] = poap.global[admin_key]
                /\ txn.on_completion
                       \in {"DeleteApplication", "UpdateApplication"}
                   => ~txn.approved /\ PoapStateKept /\ poap'.created]_vars

C29_Witness ==
    /\ poap.created
    /\ AdminCall(poap.last)
    /\ poap.last.selected = "deactivate_event"
    /\ Len(poap.last.application_args) >= 2
    /\ poap.last.sender # poap.global[admin_key]
    /\ ~poap.last.approved
    /\ EventKey("event_active_", 1) \in DOMAIN poap.global

\* C30: the verify operation records last_verify_result = 1 exactly when
\* the given event is active and 0 otherwise, whatever account the call
\* names.
C30_VerifyRecordsEventActivity ==
    [][LET txn == poap'.last
       IN  (/\ poap.created
            /\ txn.on_completion = "NoOp"
            /\ txn.selected = "verify"
            /\ Len(txn.application_args) >= 3)
           => /\ last_verify_result_key \in DOMAIN poap'.global
              /\ poap'.global[last_verify_result_key] =
                     IF event_exists(poap,
                                     Btoi(txn.application_args[3])[1])
                     THEN 1 ELSE 0]_vars
====
